---- MODULE Spec2Model ----
(***************************************************************************)
(* Ledger balance maintenance of lumina-finance-backend.                   *)
(*                                                                         *)
(* The store is the pair (accounts, transactions).  Every service method   *)
(* is an operator that maps the store and the call's arguments to the      *)
(* thrown error (or "ok") and the store it leaves behind; an action        *)
(* applies one method call.  Requests run one at a time.  Amounts are      *)
(* integers (minor units); date, payee and memo do not influence any       *)
(* balance and are left out of the rows.  A transfer is inserted without   *)
(* is_reconciled and gets the column's default, taken to be false.         *)
(*                                                                         *)
(* categoryRows is the categories table as the category service keeps it,  *)
(* budgets the budgets table.  requests holds the requests that run        *)
(* concurrently, each with its position in its handler and the values it   *)
(* has read; every await on the store is one step.                         *)
(* recurring is the recurring_transactions table and today the calendar    *)
(* day of the server clock; dates are (year, month, day) records and the   *)
(* server's time zone is taken to be UTC, so that new Date('YYYY-MM-DD')   *)
(* and toISOString().split('T')[0] name the same calendar day.             *)
(***************************************************************************)
EXTENDS Integers, Sequences, FiniteSets

VARIABLES accounts, transactions, last, nops, recurring, today, categoryRows, budgets,
          requests

vars == <<accounts, transactions, last, nops, recurring, today, categoryRows, budgets,
          requests>>

(* ---------------------------- bounds ----------------------------------- *)

\* rows the transactions table may hold
MaxTx == 1
\* createTransaction, updateTransaction and updateAccount calls in one run
\* (and deleteAccount and bulkCreateTransactions calls)
MaxOps == 2

(* ---------------------------- fixtures --------------------------------- *)

\* the budgets table at the start: one budget of u1 on category 1 and one of
\* u2 on category 3, both for January
InitBudgets ==
    <<[user_id |-> "u1", category_id |-> 1, month |-> "2025-01", budgeted |-> 100,
       deleted |-> FALSE],
      [user_id |-> "u2", category_id |-> 3, month |-> "2025-01", budgeted |-> 100,
       deleted |-> FALSE]>>

\* a calendar day, and the day the server clock shows at the start
Day(y, m, d) == [y |-> y, m |-> m, d |-> d]
FirstDay == Day(2025, 2, 13)

\* a null / undefined / absent id (falsy in `!accountId`)
NoId == 0
\* an undefined currency or type in a payload
NoCurrency == ""
NoType == "undefined"

Users == {"u1", "u2"}

\* users.base_currency and users.secondary_currencies
enabledCurrencies(userId) == IF userId = "u1" THEN {"USD", "EUR"} ELSE {"USD"}

Currencies == {"USD", "EUR"}

\* ids of rows of the accounts table, and an id no row has
AccountIds == 1..5
MissingAccountId == 6

\* rows of the categories table: 1 active of u1, 2 soft-deleted of u1,
\* 3 active of u2; 4 is an id no row has
categories == [c \in 1..3 |->
    [user_id |-> IF c = 3 THEN "u2" ELSE "u1", deleted |-> (c = 2)]]
MissingCategoryId == 4

\* the categories table as the category service sees it, with each row's
\* type and parent: the rows above, and a subcategory 4 of category 1
InitCategoryRows ==
    <<[user_id |-> "u1", type |-> "expense", parent_id |-> NoId, deleted |-> FALSE],
      [user_id |-> "u1", type |-> "expense", parent_id |-> NoId, deleted |-> TRUE],
      [user_id |-> "u2", type |-> "expense", parent_id |-> NoId, deleted |-> FALSE],
      [user_id |-> "u1", type |-> "expense", parent_id |-> 1, deleted |-> FALSE]>>

Types == {"income", "expense", "transfer"}

Amounts == {-30, 20}

InitAccounts == [a \in AccountIds |->
    CASE a = 1 -> [user_id |-> "u1", type |-> "checking", currency |-> "USD",
                   opening_balance |-> 100, current_balance |-> 100, deleted |-> FALSE]
      [] a = 2 -> [user_id |-> "u1", type |-> "savings", currency |-> "USD",
                   opening_balance |-> 50, current_balance |-> 50, deleted |-> FALSE]
      [] a = 3 -> [user_id |-> "u1", type |-> "credit_card", currency |-> "EUR",
                   opening_balance |-> -500, current_balance |-> -500, deleted |-> FALSE]
      [] a = 4 -> [user_id |-> "u2", type |-> "checking", currency |-> "USD",
                   opening_balance |-> 10, current_balance |-> 10, deleted |-> FALSE]
      [] a = 5 -> [user_id |-> "u1", type |-> "cash", currency |-> "USD",
                   opening_balance |-> 0, current_balance |-> 0, deleted |-> TRUE]]

(* ---------------------------- helpers ---------------------------------- *)

\* Math.abs
Abs(x) == IF x < 0 THEN -x ELSE x

\* the thrown error of a call and the store it leaves
Outcome(result, accts, txs) == [result |-> result, accounts |-> accts, transactions |-> txs]

\* the lookup without its user_id filter
accountFound_anyOwner(accts, id, userId) ==
    /\ id \in DOMAIN accts
    /\ ~accts[id].deleted

\* accounts: .eq('id', id).eq('user_id', userId).is('deleted_at', null).single()
accountFound(accts, id, userId) ==
    /\ id \in DOMAIN accts
    /\ accts[id].user_id = userId
    /\ ~accts[id].deleted

\* categories: .eq('id', id).eq('user_id', userId).is('deleted_at', null).single()
categoryFound(id, userId) ==
    /\ id \in DOMAIN categories
    /\ categories[id].user_id = userId
    /\ ~categories[id].deleted

\* the lookup without its deleted_at filter
transactionFound_anyState(txs, id, userId) ==
    /\ id \in 1..Len(txs)
    /\ txs[id].user_id = userId

\* transactions: .eq('id', id).eq('user_id', userId).is('deleted_at', null).single()
transactionFound(txs, id, userId) ==
    /\ id \in 1..Len(txs)
    /\ txs[id].user_id = userId
    /\ ~txs[id].deleted

\* accounts.update({ current_balance: v }).eq('id', id)
writeBalance(accts, id, v) ==
    IF id \in DOMAIN accts THEN [accts EXCEPT ![id].current_balance = v] ELSE accts

\* the balance when loan and credit_card accounts invert the delta
creditedBalance_debtInverted(account, transactionAmount) ==
    IF account.type \in {"loan", "credit_card"}
    THEN account.current_balance - transactionAmount
    ELSE account.current_balance + transactionAmount

\* the balance an income/expense entry leaves on its account
creditedBalance(account, transactionAmount) == account.current_balance + transactionAmount

\* the amount taken as submitted
transferMagnitude_asGiven(amount) == amount

\* the amount a transfer moves
transferMagnitude(amount) == Abs(amount)

\* the amount stored as submitted
signedAmount_asGiven(type, amount) == amount

\* the signed amount stored for an income/expense entry
signedAmount(type, amount) == IF type = "expense" THEN -Abs(amount) ELSE Abs(amount)

(* ---------------------------- createTransaction ------------------------ *)

createTransaction(accts, txs, userId, data) ==
    IF data.type \notin Types
    THEN Outcome("Invalid transaction type. Must be income, expense, or transfer", accts, txs)
    ELSE IF data.type = "transfer"
    THEN
        IF data.fromAccountId = NoId \/ data.toAccountId = NoId
        THEN Outcome("Transfer transactions require both fromAccountId and toAccountId", accts, txs)
        ELSE IF data.fromAccountId = data.toAccountId
        THEN Outcome("Cannot transfer to the same account", accts, txs)
        ELSE IF ~accountFound(accts, data.fromAccountId, userId)
        THEN Outcome("Source account not found or does not belong to user", accts, txs)
        ELSE IF ~accountFound(accts, data.toAccountId, userId)
        THEN Outcome("Destination account not found or does not belong to user", accts, txs)
        ELSE IF accts[data.fromAccountId].currency # accts[data.toAccountId].currency
        THEN Outcome("Transfer between different currencies not yet supported", accts, txs)
        ELSE
            LET fromAccount == accts[data.fromAccountId]
                toAccount == accts[data.toAccountId]
                transferAmount == transferMagnitude(data.amount)
                transaction == [user_id |-> userId, type |-> "transfer",
                                account_id |-> NoId,
                                from_account_id |-> data.fromAccountId,
                                to_account_id |-> data.toAccountId,
                                category_id |-> NoId,
                                amount |-> transferAmount,
                                currency |-> fromAccount.currency,
                                is_reconciled |-> FALSE,
                                deleted |-> FALSE]
                debited == writeBalance(accts, data.fromAccountId,
                                        fromAccount.current_balance - transferAmount)
                credited == writeBalance(debited, data.toAccountId,
                                         toAccount.current_balance + transferAmount)
            IN Outcome("ok", credited, Append(txs, transaction))
    ELSE
        IF data.accountId = NoId
        THEN Outcome("accountId is required for income/expense transactions", accts, txs)
        ELSE IF ~accountFound(accts, data.accountId, userId)
        THEN Outcome("Account not found or does not belong to user", accts, txs)
        ELSE IF data.currency # NoCurrency /\ data.currency # accts[data.accountId].currency
        THEN Outcome("Transaction currency must match account currency", accts, txs)
        ELSE IF data.categoryId # NoId /\ ~categoryFound(data.categoryId, userId)
        THEN Outcome("Category not found or does not belong to user", accts, txs)
        ELSE
            LET account == accts[data.accountId]
                transactionAmount == signedAmount(data.type, data.amount)
                transaction == [user_id |-> userId, type |-> data.type,
                                account_id |-> data.accountId,
                                from_account_id |-> NoId,
                                to_account_id |-> NoId,
                                category_id |-> data.categoryId,
                                amount |-> transactionAmount,
                                currency |-> account.currency,
                                is_reconciled |-> FALSE,
                                deleted |-> FALSE]
            IN Outcome("ok",
                       writeBalance(accts, data.accountId,
                                    creditedBalance(account, transactionAmount)),
                       Append(txs, transaction))

(* ---------------------------- revertTransactionBalance ----------------- *)

\* accounts: .select('current_balance').eq('id', id).single()
accountExists(accts, id) == id \in DOMAIN accts

revertTransactionBalance_amountAddedBack(accts, transaction) ==
    IF transaction.type = "transfer"
    THEN
        IF accountExists(accts, transaction.from_account_id)
           /\ accountExists(accts, transaction.to_account_id)
        THEN
            LET fromAccount == accts[transaction.from_account_id]
                toAccount == accts[transaction.to_account_id]
                restored == writeBalance(accts, transaction.from_account_id,
                                         fromAccount.current_balance + transaction.amount)
            IN writeBalance(restored, transaction.to_account_id,
                            toAccount.current_balance - transaction.amount)
        ELSE accts
    ELSE
        IF accountExists(accts, transaction.account_id)
        THEN writeBalance(accts, transaction.account_id,
                          accts[transaction.account_id].current_balance + transaction.amount)
        ELSE accts
revertTransactionBalance(accts, transaction) ==
    IF transaction.type = "transfer"
    THEN
        IF accountExists(accts, transaction.from_account_id)
           /\ accountExists(accts, transaction.to_account_id)
        THEN
            LET fromAccount == accts[transaction.from_account_id]
                toAccount == accts[transaction.to_account_id]
                restored == writeBalance(accts, transaction.from_account_id,
                                         fromAccount.current_balance + transaction.amount)
            IN writeBalance(restored, transaction.to_account_id,
                            toAccount.current_balance - transaction.amount)
        ELSE accts
    ELSE
        IF accountExists(accts, transaction.account_id)
        THEN writeBalance(accts, transaction.account_id,
                          accts[transaction.account_id].current_balance - transaction.amount)
        ELSE accts

(* ---------------------------- updateTransaction ------------------------ *)

\* `amount || oldTransaction.amount` of the transfer branch
transferUpdateAmount(updateData, oldTransaction) ==
    IF updateData.hasAmount /\ updateData.amount # 0
    THEN updateData.amount ELSE oldTransaction.amount

\* `amount !== undefined ? amount : Math.abs(oldTransaction.amount)`
singleUpdateAmount(updateData, oldTransaction) ==
    IF updateData.hasAmount THEN updateData.amount ELSE Abs(oldTransaction.amount)

updateTransaction(accts, txs, userId, transactionId, updateData) ==
    IF ~transactionFound(txs, transactionId, userId)
    THEN Outcome("Transaction not found", accts, txs)
    ELSE
        LET oldTransaction == txs[transactionId]
            reverted == revertTransactionBalance(accts, oldTransaction)
        IN
        IF updateData.type = "transfer"
        THEN
            IF updateData.fromAccountId = NoId \/ updateData.toAccountId = NoId
            THEN Outcome("Transfer transactions require both fromAccountId and toAccountId",
                         reverted, txs)
            ELSE IF ~accountFound(reverted, updateData.fromAccountId, userId)
                    \/ ~accountFound(reverted, updateData.toAccountId, userId)
            THEN Outcome("One or both accounts not found", reverted, txs)
            ELSE
                LET fromAccount == reverted[updateData.fromAccountId]
                    toAccount == reverted[updateData.toAccountId]
                    transferAmount ==
                        transferMagnitude(transferUpdateAmount(updateData, oldTransaction))
                    updatedTx == [oldTransaction EXCEPT
                                    !.type = "transfer",
                                    !.from_account_id = updateData.fromAccountId,
                                    !.to_account_id = updateData.toAccountId,
                                    !.amount = transferAmount,
                                    !.currency = fromAccount.currency]
                    debited == writeBalance(reverted, updateData.fromAccountId,
                                            fromAccount.current_balance - transferAmount)
                    credited == writeBalance(debited, updateData.toAccountId,
                                             toAccount.current_balance + transferAmount)
                IN Outcome("ok", credited, [txs EXCEPT ![transactionId] = updatedTx])
        ELSE
            LET targetAccountId == IF updateData.accountId # NoId
                                   THEN updateData.accountId
                                   ELSE oldTransaction.account_id
            IN
            IF ~accountFound(reverted, targetAccountId, userId)
            THEN Outcome("Account not found", reverted, txs)
            ELSE IF updateData.categoryId # NoId /\ ~categoryFound(updateData.categoryId, userId)
            THEN Outcome("Category not found", reverted, txs)
            ELSE
                LET account == reverted[targetAccountId]
                    newType == IF updateData.type # NoType
                               THEN updateData.type ELSE oldTransaction.type
                    newAmount == singleUpdateAmount(updateData, oldTransaction)
                    transactionAmount == signedAmount(newType, newAmount)
                    updatedTx == [oldTransaction EXCEPT
                                    !.type = newType,
                                    !.account_id = targetAccountId,
                                    !.category_id = IF updateData.categoryId # NoId
                                                    THEN updateData.categoryId
                                                    ELSE oldTransaction.category_id,
                                    !.amount = transactionAmount,
                                    !.currency = IF updateData.currency # NoCurrency
                                                 THEN updateData.currency
                                                 ELSE oldTransaction.currency]
                IN Outcome("ok",
                           writeBalance(reverted, targetAccountId,
                                        creditedBalance(account, transactionAmount)),
                           [txs EXCEPT ![transactionId] = updatedTx])

(* ---------------------------- deleteTransaction ------------------------ *)

deleteTransaction(accts, txs, userId, transactionId) ==
    IF ~transactionFound(txs, transactionId, userId)
    THEN Outcome("Transaction not found", accts, txs)
    ELSE Outcome("ok",
                 revertTransactionBalance(accts, txs[transactionId]),
                 [txs EXCEPT ![transactionId].deleted = TRUE])

(* ---------------------------- updateAccount ---------------------------- *)

updateAccount(accts, userId, accountId, updateData) ==
    IF ~accountFound(accts, accountId, userId)
    THEN Outcome("Failed to update account: Account not found or access denied", accts, <<>>)
    ELSE IF /\ updateData.currency # NoCurrency
            /\ updateData.currency # accts[accountId].currency
            /\ updateData.currency \notin enabledCurrencies(userId)
    THEN Outcome("Failed to update account: Currency is not enabled for your account", accts, <<>>)
    ELSE
        LET existingAccount == accts[accountId]
            updatedFields == [existingAccount EXCEPT
                !.currency = IF updateData.currency # NoCurrency
                             THEN updateData.currency ELSE existingAccount.currency,
                !.current_balance = IF updateData.hasBalance
                                    THEN updateData.current_balance
                                    ELSE existingAccount.current_balance]
        IN Outcome("ok", [accts EXCEPT ![accountId] = updatedFields], <<>>)

(* ---------------------------- request payloads ------------------------- *)

\* accounts of u1 that are live, and ids whose lookup fails for u1:
\* 4 is u2's, 5 is soft-deleted, 6 is no row
OwnAccountArgs == {NoId, 1, 2, 3}
OtherAccountArgs == {4, 5, MissingAccountId}
AccountArgs == OwnAccountArgs \cup OtherAccountArgs
\* category 1 is live and u1's; 2 is soft-deleted, 3 is u2's, 4 is no row
OwnCategoryArgs == {NoId, 1}
OtherCategoryArgs == {2, 3, MissingCategoryId}
CurrencyArgs == {NoCurrency} \cup Currencies

\* createTransaction payloads, with the fields read for the payload's type
\* (amount is always present: hasAmount only gives them the shape of a patch)
TransferPayloads ==
    [type : {"transfer"}, accountId : {NoId}, fromAccountId : OwnAccountArgs,
     toAccountId : OwnAccountArgs, categoryId : {NoId}, hasAmount : {TRUE},
     amount : Amounts, currency : {NoCurrency}]
    \cup
    [type : {"transfer"}, accountId : {NoId}, fromAccountId : OtherAccountArgs,
     toAccountId : {1, 4}, categoryId : {NoId}, hasAmount : {TRUE},
     amount : {20}, currency : {NoCurrency}]
    \cup
    [type : {"transfer"}, accountId : {NoId}, fromAccountId : {1, 4},
     toAccountId : OtherAccountArgs, categoryId : {NoId}, hasAmount : {TRUE},
     amount : {20}, currency : {NoCurrency}]
SinglePayloads ==
    [type : {"income", "expense"}, accountId : OwnAccountArgs, fromAccountId : {NoId},
     toAccountId : {NoId}, categoryId : OwnCategoryArgs, hasAmount : {TRUE},
     amount : Amounts, currency : CurrencyArgs]
    \cup
    [type : {"income", "expense"}, accountId : OtherAccountArgs, fromAccountId : {NoId},
     toAccountId : {NoId}, categoryId : {NoId}, hasAmount : {TRUE},
     amount : Amounts, currency : {NoCurrency, "USD"}]
    \cup
    [type : {"expense"}, accountId : {1, 4}, fromAccountId : {NoId},
     toAccountId : {NoId}, categoryId : OtherCategoryArgs, hasAmount : {TRUE},
     amount : {20}, currency : {NoCurrency}]
InvalidPayloads ==
    [type : {"refund"}, accountId : {1}, fromAccountId : {NoId},
     toAccountId : {NoId}, categoryId : {NoId}, hasAmount : {TRUE},
     amount : {20}, currency : {NoCurrency}]
CreatePayloads == TransferPayloads \cup SinglePayloads \cup InvalidPayloads

\* an amount of a patch: absent, or one of Amounts
PatchAmounts == {[hasAmount |-> FALSE, amount |-> 0]}
                \cup [hasAmount : {TRUE}, amount : Amounts]

Patch(type, accountId, fromAccountId, toAccountId, categoryId, amt, currency) ==
    [type |-> type, accountId |-> accountId, fromAccountId |-> fromAccountId,
     toAccountId |-> toAccountId, categoryId |-> categoryId,
     hasAmount |-> amt.hasAmount, amount |-> amt.amount, currency |-> currency]

\* updateTransaction patches, with the fields read for the patch's type
TransferPatches ==
    {Patch("transfer", NoId, f, t, NoId, amt, NoCurrency) :
        f \in OwnAccountArgs, t \in OwnAccountArgs, amt \in PatchAmounts}
    \cup
    {Patch("transfer", NoId, f, t, NoId, [hasAmount |-> FALSE, amount |-> 0], NoCurrency) :
        f \in OtherAccountArgs, t \in {1, 4}}
    \cup
    {Patch("transfer", NoId, f, t, NoId, [hasAmount |-> FALSE, amount |-> 0], NoCurrency) :
        f \in {1, 4}, t \in OtherAccountArgs}
SinglePatches ==
    {Patch(ty, a, NoId, NoId, c, amt, cur) :
        ty \in {NoType, "income", "expense"}, a \in OwnAccountArgs,
        c \in OwnCategoryArgs, amt \in PatchAmounts, cur \in CurrencyArgs}
    \cup
    {Patch(ty, a, NoId, NoId, NoId, [hasAmount |-> FALSE, amount |-> 0], NoCurrency) :
        ty \in {NoType, "expense"}, a \in OtherAccountArgs}
    \cup
    {Patch(NoType, NoId, NoId, NoId, c, [hasAmount |-> FALSE, amount |-> 0], NoCurrency) :
        c \in OtherCategoryArgs}
UpdatePatches == TransferPatches \cup SinglePatches

\* a patch that names no field of the row (only memo, date or payee)
MemoPatch == Patch(NoType, NoId, NoId, NoId, NoId, [hasAmount |-> FALSE, amount |-> 0],
                   NoCurrency)

\* ids a request may name: every row the table can hold and one beyond
TransactionArgs == 1..(MaxTx + 1)

\* updateAccount payloads: a new currency, or a new current_balance
AccountPatches ==
    [currency : {NoCurrency, "USD", "EUR", "GBP"}, hasBalance : {FALSE}, current_balance : {0}]
    \cup
    [currency : {NoCurrency}, hasBalance : {TRUE}, current_balance : {0}]

(* ---------------------------- actions ---------------------------------- *)

\* the store after the call, and the call's name, caller, target, payload and
\* result (the payload of a rejected createTransaction is not kept)
Commit(op, userId, id, data, r) ==
    /\ accounts' = r.accounts
    /\ transactions' = r.transactions
    /\ last' = [op |-> op, user |-> userId, result |-> r.result, id |-> id, data |-> data]
    /\ UNCHANGED <<recurring, today, categoryRows, budgets, requests>>

DoCreateTransaction ==
    /\ nops < MaxOps
    /\ \E userId \in Users, data \in CreatePayloads :
        LET r == createTransaction(accounts, transactions, userId, data)
        IN /\ r.result = "ok" => Len(transactions) < MaxTx
           /\ Commit("createTransaction", userId,
                     IF r.result = "ok" THEN Len(transactions) + 1 ELSE NoId,
                     IF r.result = "ok" THEN data ELSE MemoPatch, r)
    /\ nops' = nops + 1

\* the patch is read only once the row is found
DoUpdateTransaction ==
    /\ nops < MaxOps
    /\ \E userId \in Users, transactionId \in TransactionArgs :
        \E updateData \in IF transactionFound(transactions, transactionId, userId)
                          THEN UpdatePatches ELSE {MemoPatch} :
            Commit("updateTransaction", userId, transactionId, updateData,
                   updateTransaction(accounts, transactions, userId, transactionId, updateData))
    /\ nops' = nops + 1

\* a row is deleted once, so these calls need no cap
DoDeleteTransaction ==
    /\ \E userId \in Users, transactionId \in TransactionArgs :
        Commit("deleteTransaction", userId, transactionId, MemoPatch,
               deleteTransaction(accounts, transactions, userId, transactionId))
    /\ nops' = nops

DoUpdateAccount ==
    /\ nops < MaxOps
    /\ \E userId \in Users, accountId \in AccountArgs \ {NoId}, updateData \in AccountPatches :
        LET r == updateAccount(accounts, userId, accountId, updateData)
        IN Commit("updateAccount", userId, accountId, MemoPatch,
                  Outcome(r.result, r.accounts, transactions))
    /\ nops' = nops + 1

Init ==
    /\ accounts = InitAccounts
    /\ transactions = <<>>
    /\ last = [op |-> "none", user |-> "u1", result |-> "ok", id |-> NoId,
               data |-> MemoPatch]
    /\ nops = 0
    /\ recurring = <<>>
    /\ today = FirstDay
    /\ categoryRows = InitCategoryRows
    /\ budgets = InitBudgets
    /\ requests = <<>>

\* the transaction service alone
Next ==
    \/ DoCreateTransaction
    \/ DoUpdateTransaction
    \/ DoDeleteTransaction

Spec == Init /\ [][Next]_vars

\* the transaction service and the account service
NextAccounts ==
    \/ DoCreateTransaction
    \/ DoUpdateTransaction
    \/ DoDeleteTransaction
    \/ DoUpdateAccount

SpecAccounts == Init /\ [][NextAccounts]_vars

(* ---------------------------- ledger arithmetic ------------------------ *)

DebtTypes == {"loan", "credit_card"}

\* the delta an entry contributes to account a: +amount for income, the
\* negative amount for expense, -amount on a transfer's source and +amount
\* on its destination; nothing once the entry is soft-deleted
Effect(tx, a) ==
    IF tx.deleted THEN 0
    ELSE IF tx.type = "transfer"
    THEN (IF tx.to_account_id = a THEN tx.amount ELSE 0)
         - (IF tx.from_account_id = a THEN tx.amount ELSE 0)
    ELSE IF tx.account_id = a THEN tx.amount ELSE 0

RECURSIVE SumEffects(_, _, _)
SumEffects(txs, a, n) ==
    IF n = 0 THEN 0 ELSE SumEffects(txs, a, n - 1) + Effect(txs[n], a)

Called(op) == last'.op = op
Succeeded(op) == last'.op = op /\ last'.result = "ok"
StoreUnchanged == accounts' = accounts /\ transactions' = transactions
BalanceOf(accts, a) == accts[a].current_balance

(* ---------------------------- C1 --------------------------------------- *)

\* C1: after any sequence of createTransaction, updateTransaction and
\* deleteTransaction calls, every account's current_balance equals its
\* opening_balance plus the sum of the effects of its active entries.
C1_BalanceMatchesLedger ==
    \A a \in DOMAIN accounts :
        accounts[a].current_balance =
            accounts[a].opening_balance + SumEffects(transactions, a, Len(transactions))

(* ---------------------------- C2 --------------------------------------- *)

\* the delta the specification applies to an account of the given type
effectiveDelta(accountType, delta) == IF accountType \in DebtTypes THEN -delta ELSE delta

CreatedSingle ==
    /\ Succeeded("createTransaction")
    /\ last'.data.type \in {"income", "expense"}

C3_FailedUpdateLeavesStore ==
    [][(Called("updateTransaction")
        /\ last'.result \notin {"ok", "Transaction not found"}) => StoreUnchanged]_vars

(* ---------------------------- C4 --------------------------------------- *)

\* the patch names no kind, amount, account, category or currency other than
\* the entry's own
Neutral(patch, tx) ==
    /\ patch.type \in {NoType, tx.type}
    /\ patch.hasAmount => Abs(patch.amount) = Abs(tx.amount)
    /\ patch.accountId \in {NoId, tx.account_id}
    /\ patch.fromAccountId \in {NoId, tx.from_account_id}
    /\ patch.toAccountId \in {NoId, tx.to_account_id}
    /\ patch.type = "transfer" =>
          patch.fromAccountId = tx.from_account_id /\ patch.toAccountId = tx.to_account_id
    /\ patch.categoryId \in {NoId, tx.category_id}
    /\ patch.currency \in {NoCurrency, tx.currency}

\* C4: updateTransaction by the owner of an active entry, with a patch that
\* changes none of kind, amount or account references, succeeds and leaves
\* every current_balance unchanged.
C4_NeutralUpdateIsNoOp ==
    [][(/\ Called("updateTransaction")
        /\ transactionFound(transactions, last'.id, last'.user)
        /\ Neutral(last'.data, transactions[last'.id]))
       => (/\ last'.result = "ok"
           /\ \A a \in DOMAIN accounts : BalanceOf(accounts', a) = BalanceOf(accounts, a))]_vars

(* ---------------------------- C5 --------------------------------------- *)

CreatedTransfer ==
    /\ Succeeded("createTransaction")
    /\ last'.data.type = "transfer"

\* C5: createTransaction of a transfer of amount m between two distinct
\* same-currency non-debt accounts of the caller takes |m| from the source,
\* adds |m| to the destination, stores |m| as the amount and changes no other
\* balance, so the sum of the two balances is preserved.
C5_TransferMovesMagnitude ==
    [][CreatedTransfer =>
        LET m == last'.data.amount
            src == last'.data.fromAccountId
            dst == last'.data.toAccountId
        IN (/\ src # dst
            /\ accounts[src].user_id = last'.user /\ accounts[dst].user_id = last'.user
            /\ accounts[src].currency = accounts[dst].currency
            /\ accounts[src].type \notin DebtTypes /\ accounts[dst].type \notin DebtTypes)
           => (/\ BalanceOf(accounts', src) = BalanceOf(accounts, src) - Abs(m)
               /\ BalanceOf(accounts', dst) = BalanceOf(accounts, dst) + Abs(m)
               /\ transactions'[last'.id].amount = Abs(m)
               /\ \A a \in DOMAIN accounts \ {src, dst} : accounts'[a] = accounts[a]
               /\ BalanceOf(accounts', src) + BalanceOf(accounts', dst)
                     = BalanceOf(accounts, src) + BalanceOf(accounts, dst))]_vars

\* a transfer submitted as -30 from account 1 (100) to account 2 (50) left 70 and 80
C5_Witness ==
    /\ last.op = "createTransaction" /\ last.result = "ok"
    /\ last.data.type = "transfer" /\ last.data.amount = -30
    /\ last.data.fromAccountId = 1 /\ last.data.toAccountId = 2
    /\ transactions[last.id].amount = 30
    /\ accounts[1].current_balance = 70
    /\ accounts[2].current_balance = 80

(* ---------------------------- C6 --------------------------------------- *)

\* C6: a soft-deleted entry stays soft-deleted whatever is called, and
\* deleteTransaction on a soft-deleted entry fails with 'Transaction not
\* found' and changes no account and no entry.
C6_DeleteIsFinal ==
    [][/\ \A id \in 1..Len(transactions) :
             transactions[id].deleted =>
                 id <= Len(transactions') /\ transactions'[id].deleted
       /\ (/\ Called("deleteTransaction")
           /\ last'.id \in 1..Len(transactions)
           /\ transactions[last'.id].deleted)
          => (last'.result = "Transaction not found" /\ StoreUnchanged)]_vars

\* the owner deleted an entry and then asked to delete it again
C6_Witness ==
    /\ last.op = "deleteTransaction"
    /\ last.result = "Transaction not found"
    /\ last.id \in 1..Len(transactions)
    /\ transactions[last.id].deleted
    /\ transactions[last.id].user_id = last.user

(* ---------------------------- C7 --------------------------------------- *)

\* C7: a successful updateTransaction changes each account's balance by the
\* effect of the entry as stored after the update minus the effect of the
\* entry as stored before it; an account neither version references keeps
\* its balance.
C7_UpdateSwapsEffects ==
    [][Succeeded("updateTransaction") =>
        \A a \in DOMAIN accounts :
            BalanceOf(accounts', a) =
                BalanceOf(accounts, a) - Effect(transactions[last'.id], a)
                                       + Effect(transactions'[last'.id], a)]_vars

(* ---------------------------- C8 --------------------------------------- *)

\* C8: every stored income has amount >= 0, every expense amount <= 0 and
\* every transfer amount >= 0.
C8_AmountSignMatchesKind ==
    \A id \in 1..Len(transactions) :
        LET tx == transactions[id]
        IN /\ tx.type = "income" => tx.amount >= 0
           /\ tx.type = "expense" => tx.amount <= 0
           /\ tx.type = "transfer" => tx.amount >= 0

\* a transfer was just turned into an expense by a patch that gave no amount
C8_Witness ==
    /\ last.op = "updateTransaction" /\ last.result = "ok"
    /\ last.data.type = "expense" /\ ~last.data.hasAmount
    /\ transactions[last.id].type = "expense"
    /\ transactions[last.id].from_account_id # NoId
    /\ transactions[last.id].amount < 0

(* ---------------------------- C9 --------------------------------------- *)

\* C9: each active income/expense entry has the currency of its account, and
\* each active transfer's source and destination have the same currency as
\* each other and as the entry.
C9_CurrencyMatchesAccounts ==
    \A id \in 1..Len(transactions) :
        LET tx == transactions[id]
        IN ~tx.deleted =>
            IF tx.type = "transfer"
            THEN /\ accounts[tx.from_account_id].currency = tx.currency
                 /\ accounts[tx.to_account_id].currency = tx.currency
            ELSE accounts[tx.account_id].currency = tx.currency

(* ---------------------------- C10 -------------------------------------- *)

\* the row exists, is the caller's and is not soft-deleted
LiveAccountOf(userId, id) ==
    /\ id \in DOMAIN accounts
    /\ accounts[id].user_id = userId /\ ~accounts[id].deleted
LiveCategoryOf(userId, id) ==
    /\ id \in DOMAIN categories
    /\ categories[id].user_id = userId /\ ~categories[id].deleted

\* none of the reasons for which a payload must be rejected applies
Acceptable(userId, data) ==
    /\ data.type \in {"income", "expense", "transfer"}
    /\ data.type = "transfer" =>
        /\ data.fromAccountId # data.toAccountId
        /\ LiveAccountOf(userId, data.fromAccountId)
        /\ LiveAccountOf(userId, data.toAccountId)
        /\ accounts[data.fromAccountId].currency = accounts[data.toAccountId].currency
    /\ data.type # "transfer" =>
        /\ LiveAccountOf(userId, data.accountId)
        /\ data.categoryId # NoId => LiveCategoryOf(userId, data.categoryId)
        /\ data.currency # NoCurrency => data.currency = accounts[data.accountId].currency

\* C10: createTransaction accepts a payload only if its kind is income,
\* expense or transfer, a transfer's two accounts are distinct and of one
\* currency, every account and category the entry references is live and the
\* caller's, and a supplied income/expense currency is the account's; a
\* rejected call persists no entry and changes no balance.
C10_CreateRejectsInvalid ==
    [][Called("createTransaction") =>
        IF last'.result = "ok"
        THEN /\ Acceptable(last'.user, last'.data)
             /\ Len(transactions') = Len(transactions) + 1
        ELSE StoreUnchanged]_vars

\* a transfer between a USD and a EUR account was just refused
C10_Witness ==
    /\ last.op = "createTransaction"
    /\ last.result = "Transfer between different currencies not yet supported"
    /\ transactions = <<>>
    /\ \A a \in DOMAIN accounts : accounts[a].current_balance = accounts[a].opening_balance

(* ---------------------------- C11 -------------------------------------- *)

\* C11: updateAccount never changes an account's current_balance, whatever
\* its payload contains.
C11_UpdateAccountKeepsBalance ==
    [][Called("updateAccount") =>
        \A a \in DOMAIN accounts : BalanceOf(accounts', a) = BalanceOf(accounts, a)]_vars

(* ---------------------------- deleteAccount ---------------------------- *)

\* the count query that looks at account_id only
accountReferenced_singleOnly(txs, accountId) ==
    \E i \in 1..Len(txs) : ~txs[i].deleted /\ txs[i].account_id = accountId

\* transactions: .or(account_id.eq.X, from_account_id.eq.X, to_account_id.eq.X)
\*               .is('deleted_at', null), count > 0
accountReferenced(txs, accountId) ==
    \E i \in 1..Len(txs) :
        /\ ~txs[i].deleted
        /\ \/ txs[i].account_id = accountId
           \/ txs[i].from_account_id = accountId
           \/ txs[i].to_account_id = accountId

\* the first revision of the account service
deleteAccount(accts, txs, userId, accountId) ==
    IF ~accountFound(accts, accountId, userId)
    THEN Outcome("Failed to delete account: Account not found or access denied", accts, txs)
    ELSE IF accountReferenced(txs, accountId)
    THEN Outcome("Failed to delete account: Cannot delete account with associated transactions",
                 accts, txs)
    ELSE Outcome("ok", [accts EXCEPT ![accountId].deleted = TRUE], txs)

\* the second revision: the count is over the caller's entries, and the
\* update is filtered by id and user_id only
deleteAccountRevised(accts, txs, userId, accountId) ==
    IF \E i \in 1..Len(txs) :
          /\ txs[i].user_id = userId
          /\ accountReferenced(<<txs[i]>>, accountId)
    THEN Outcome("Cannot delete account with associated transactions", accts, txs)
    ELSE IF accountId \in DOMAIN accts /\ accts[accountId].user_id = userId
    THEN Outcome("ok", [accts EXCEPT ![accountId].deleted = TRUE], txs)
    ELSE Outcome("ok", accts, txs)

DoDeleteAccount ==
    /\ nops < MaxOps
    /\ \E userId \in Users, accountId \in AccountArgs \ {NoId} :
        Commit("deleteAccount", userId, accountId, MemoPatch,
               deleteAccount(accounts, transactions, userId, accountId))
    /\ nops' = nops + 1

DoDeleteAccountRevised ==
    /\ nops < MaxOps
    /\ \E userId \in Users, accountId \in AccountArgs \ {NoId} :
        Commit("deleteAccountRevised", userId, accountId, MemoPatch,
               deleteAccountRevised(accounts, transactions, userId, accountId))
    /\ nops' = nops + 1

\* every operation of the account service and of the transaction service
NextLedger ==
    \/ DoCreateTransaction
    \/ DoUpdateTransaction
    \/ DoDeleteTransaction
    \/ DoUpdateAccount
    \/ DoDeleteAccount
    \/ DoDeleteAccountRevised

SpecLedger == Init /\ [][NextLedger]_vars

(* ---------------------------- C12 -------------------------------------- *)

\* the accounts an entry names as account, transfer source or destination
References(tx) == {tx.account_id, tx.from_account_id, tx.to_account_id} \ {NoId}

NoActiveEntryOnDeletedAccount(accts, txs) ==
    \A i \in 1..Len(txs) :
        ~txs[i].deleted =>
            \A a \in References(txs[i]) : a \in DOMAIN accts /\ ~accts[a].deleted

ReferencedByActiveEntry(txs, a) ==
    \E i \in 1..Len(txs) : ~txs[i].deleted /\ a \in References(txs[i])

toggledFlag_set(is_reconciled) == TRUE

\* is_reconciled: !transaction.is_reconciled
toggledFlag(is_reconciled) == ~is_reconciled

toggleReconciliation(accts, txs, userId, transactionId) ==
    IF ~transactionFound(txs, transactionId, userId)
    THEN Outcome("Transaction not found", accts, txs)
    ELSE Outcome("ok", accts,
                 [txs EXCEPT ![transactionId].is_reconciled =
                     toggledFlag(txs[transactionId].is_reconciled)])

\* the flag has two values, so these calls need no cap
DoToggleReconciliation ==
    /\ \E userId \in Users, transactionId \in TransactionArgs :
        Commit("toggleReconciliation", userId, transactionId, MemoPatch,
               toggleReconciliation(accounts, transactions, userId, transactionId))
    /\ nops' = nops

\* the transaction service with reconciliation
NextReconcile ==
    \/ DoCreateTransaction
    \/ DoUpdateTransaction
    \/ DoDeleteTransaction
    \/ DoToggleReconciliation

SpecReconcile == Init /\ [][NextReconcile]_vars

(* ---------------------------- C13 -------------------------------------- *)

\* C13: toggleReconciliation on an active entry of the caller inverts
\* is_reconciled and changes no other field of any entry and no account; on
\* a missing, soft-deleted or foreign entry it fails and changes nothing.
C13_ToggleFlipsFlagOnly ==
    [][Called("toggleReconciliation") =>
        IF /\ last'.id \in 1..Len(transactions)
           /\ transactions[last'.id].user_id = last'.user
           /\ ~transactions[last'.id].deleted
        THEN /\ last'.result = "ok"
             /\ accounts' = accounts
             /\ transactions' = [transactions EXCEPT
                    ![last'.id].is_reconciled = ~transactions[last'.id].is_reconciled]
        ELSE last'.result # "ok" /\ StoreUnchanged]_vars

\* the flag, false at creation, is false again after a toggle: it was toggled
\* twice
C13_Witness ==
    /\ last.op = "toggleReconciliation" /\ last.result = "ok"
    /\ ~transactions[last.id].is_reconciled

(* ----------------------- bulkCreateTransactions ------------------------- *)

\* items one call may carry
MaxBulk == 3

\* results.successful.push(transaction)
pushSuccessful_intoFailed(results, id, transaction, txData) ==
    [results EXCEPT !.failed = Append(@, [data |-> txData, error |-> "ok"])]
pushSuccessful(results, id, transaction, txData) ==
    [results EXCEPT !.successful = Append(@, [id |-> id, row |-> transaction])]

\* results.failed.push({ data: txData, error: error.message })
pushFailed(results, txData, error) ==
    [results EXCEPT !.failed = Append(@, [data |-> txData, error |-> error])]

\* the loop over transactionsData: every item goes through createTransaction,
\* and a throw is caught and recorded
RECURSIVE bulkLoop_abortOnFailure(_, _, _, _, _)
bulkLoop_abortOnFailure(accts, txs, userId, transactionsData, results) ==
    IF transactionsData = <<>>
    THEN [result |-> "ok", accounts |-> accts, transactions |-> txs, returned |-> results]
    ELSE LET txData == Head(transactionsData)
             r == createTransaction(accts, txs, userId, txData)
         IN IF r.result = "ok"
            THEN bulkLoop_abortOnFailure(r.accounts, r.transactions, userId,
                     Tail(transactionsData),
                     pushSuccessful(results, Len(r.transactions),
                                    r.transactions[Len(r.transactions)], txData))
            ELSE [result |-> "ok", accounts |-> r.accounts, transactions |-> r.transactions,
                  returned |-> pushFailed(results, txData, r.result)]
RECURSIVE bulkLoop(_, _, _, _, _)
bulkLoop(accts, txs, userId, transactionsData, results) ==
    IF transactionsData = <<>>
    THEN [result |-> "ok", accounts |-> accts, transactions |-> txs, returned |-> results]
    ELSE LET txData == Head(transactionsData)
             r == createTransaction(accts, txs, userId, txData)
         IN IF r.result = "ok"
            THEN bulkLoop(r.accounts, r.transactions, userId, Tail(transactionsData),
                     pushSuccessful(results, Len(r.transactions),
                                    r.transactions[Len(r.transactions)], txData))
            ELSE bulkLoop(r.accounts, r.transactions, userId, Tail(transactionsData),
                     pushFailed(results, txData, r.result))

bulkCreateTransactions(accts, txs, userId, transactionsData) ==
    bulkLoop(accts, txs, userId, transactionsData, [successful |-> <<>>, failed |-> <<>>])

\* items of a bulk request: an income on account 1, a transfer from 1 to 2,
\* an expense on account 4 and a transfer from account 1 to itself
BulkItems ==
    {[type |-> "income", accountId |-> 1, fromAccountId |-> NoId, toAccountId |-> NoId,
      categoryId |-> NoId, hasAmount |-> TRUE, amount |-> 20, currency |-> NoCurrency],
     [type |-> "transfer", accountId |-> NoId, fromAccountId |-> 1, toAccountId |-> 2,
      categoryId |-> NoId, hasAmount |-> TRUE, amount |-> -30, currency |-> NoCurrency],
     [type |-> "expense", accountId |-> 4, fromAccountId |-> NoId, toAccountId |-> NoId,
      categoryId |-> NoId, hasAmount |-> TRUE, amount |-> 20, currency |-> NoCurrency],
     [type |-> "transfer", accountId |-> NoId, fromAccountId |-> 1, toAccountId |-> 1,
      categoryId |-> NoId, hasAmount |-> TRUE, amount |-> 20, currency |-> NoCurrency]}

\* requests of at most MaxBulk items
BulkRequests == UNION {[1..n -> BulkItems] : n \in 0..MaxBulk}

\* the call's record keeps the request and the returned results
DoBulkCreateTransactions ==
    /\ nops < MaxOps
    /\ \E userId \in Users, transactionsData \in BulkRequests :
        LET r == bulkCreateTransactions(accounts, transactions, userId, transactionsData)
        IN Commit("bulkCreateTransactions", userId, NoId,
                  [items |-> transactionsData, returned |-> r.returned],
                  Outcome(r.result, r.accounts, r.transactions))
    /\ nops' = nops + 1

\* bulk imports, and deletions of the first rows
NextBulk ==
    \/ DoBulkCreateTransactions
    \/ DoDeleteTransaction

SpecBulk == Init /\ [][NextBulk]_vars

\* the items of a request that createTransaction accepts for the caller
AcceptableItem(it) == Acceptable(last'.user, it)
RejectedItem(it) == ~Acceptable(last'.user, it)

\* C14: bulkCreateTransactions attempts every item in order, a failing item
\* never stops the later ones, the successful and failed counts sum to the
\* input length, and each failed item is reported with its data and its error.
C14_BulkAttemptsEveryItem ==
    [][Called("bulkCreateTransactions") =>
        LET items == last'.data.items
            ret == last'.data.returned
        IN /\ Len(ret.successful) + Len(ret.failed) = Len(items)
           /\ Len(ret.successful) = Len(SelectSeq(items, AcceptableItem))
           /\ [j \in 1..Len(ret.failed) |-> ret.failed[j].data]
                = SelectSeq(items, RejectedItem)
           /\ \A j \in 1..Len(ret.failed) : ret.failed[j].error # "ok"
           /\ last'.result = "ok"]_vars

\* a request whose first item fails and whose later items succeed
C14_Witness ==
    /\ last.op = "bulkCreateTransactions"
    /\ Len(last.data.items) = 3
    /\ Len(last.data.returned.failed) = 1
    /\ last.data.returned.failed[1].data = last.data.items[1]
    /\ Len(last.data.returned.successful) = 2

RECURSIVE SumRowEffects(_, _)
SumRowEffects(rows, a) ==
    IF rows = <<>> THEN 0 ELSE Effect(Head(rows).row, a) + SumRowEffects(Tail(rows), a)

MaxDays == 8

\* a null date (falsy, as last_processed and end_date may be)
NoDate == Day(0, 0, 0)

IsLeap(y) == (y % 4 = 0 /\ y % 100 # 0) \/ y % 400 = 0
DaysInMonth(y, m) ==
    IF m = 2 THEN (IF IsLeap(y) THEN 29 ELSE 28)
    ELSE IF m \in {4, 6, 9, 11} THEN 30 ELSE 31

\* the calendar day of a Date whose month or day of month has been set past
\* its range: the excess carries into the following months and years
RECURSIVE makeDate(_, _, _)
makeDate(y, m, d) ==
    IF m > 12 THEN makeDate(y + 1, m - 12, d)
    ELSE IF d > DaysInMonth(y, m) THEN makeDate(y, m + 1, d - DaysInMonth(y, m))
    ELSE Day(y, m, d)

\* nextDue.setDate(n), nextDue.setMonth(n) with months counted from 1, and
\* nextDue.setFullYear(n)
setDate(date, n) == makeDate(date.y, date.m, n)
setMonth(date, n) == makeDate(date.y, n, date.d)
setFullYear(date, n) == makeDate(n, date.m, date.d)

\* a > b and a <= b on Dates at midnight
dateAfter(a, b) ==
    \/ a.y > b.y
    \/ a.y = b.y /\ a.m > b.m
    \/ a.y = b.y /\ a.m = b.m /\ a.d > b.d
dateNotAfter(a, b) == ~dateAfter(a, b)

\* the switch on recurring.frequency
advance_monthOfThirtyDays(baseDate, frequency, interval) ==
    IF frequency = "daily" THEN setDate(baseDate, baseDate.d + interval)
    ELSE IF frequency = "weekly" THEN setDate(baseDate, baseDate.d + interval * 7)
    ELSE IF frequency = "monthly" THEN setDate(baseDate, baseDate.d + interval * 30)
    ELSE IF frequency = "yearly" THEN setFullYear(baseDate, baseDate.y + interval)
    ELSE baseDate
advance(baseDate, frequency, interval) ==
    IF frequency = "daily" THEN setDate(baseDate, baseDate.d + interval)
    ELSE IF frequency = "weekly" THEN setDate(baseDate, baseDate.d + interval * 7)
    ELSE IF frequency = "monthly" THEN setMonth(baseDate, baseDate.m + interval)
    ELSE IF frequency = "yearly" THEN setFullYear(baseDate, baseDate.y + interval)
    ELSE baseDate

\* the fields calculateNextDue adds to the rule; an inactive rule gets no
\* status
calculateNextDue_dueWhenEnded(rule, now) ==
    IF ~rule.is_active
    THEN [next_due_date |-> NoDate, is_due |-> FALSE, status |-> "undefined"]
    ELSE
        LET baseDate == IF rule.last_processed # NoDate THEN rule.last_processed
                        ELSE rule.start_date
            interval == IF rule.interval = 0 THEN 1 ELSE rule.interval
            nextDue == advance(baseDate, rule.frequency, interval)
            isDue == dateNotAfter(nextDue, now)
        IN IF rule.end_date # NoDate /\ dateAfter(nextDue, rule.end_date)
           THEN [next_due_date |-> NoDate, is_due |-> isDue, status |-> "ended"]
           ELSE [next_due_date |-> nextDue, is_due |-> isDue,
                 status |-> IF isDue THEN "due" ELSE "scheduled"]
calculateNextDue(rule, now) ==
    IF ~rule.is_active
    THEN [next_due_date |-> NoDate, is_due |-> FALSE, status |-> "undefined"]
    ELSE
        LET baseDate == IF rule.last_processed # NoDate THEN rule.last_processed
                        ELSE rule.start_date
            interval == IF rule.interval = 0 THEN 1 ELSE rule.interval
            nextDue == advance(baseDate, rule.frequency, interval)
            isDue == dateNotAfter(nextDue, now)
        IN IF rule.end_date # NoDate /\ dateAfter(nextDue, rule.end_date)
           THEN [next_due_date |-> NoDate, is_due |-> FALSE, status |-> "ended"]
           ELSE [next_due_date |-> nextDue, is_due |-> isDue,
                 status |-> IF isDue THEN "due" ELSE "scheduled"]

\* getRecurringById's query
recurringFound(rules, recurringId, userId) ==
    /\ recurringId \in DOMAIN rules
    /\ rules[recurringId].user_id = userId
    /\ ~rules[recurringId].deleted

\* the payload handed to createTransaction: its account_id and category_id
\* keys are not among the keys createTransaction reads
recurringTransactionData_camelCase(rule) ==
    [type |-> rule.type, accountId |-> rule.account_id, fromAccountId |-> NoId,
     toAccountId |-> NoId, categoryId |-> rule.category_id, hasAmount |-> TRUE,
     amount |-> rule.amount, currency |-> rule.currency]
recurringTransactionData(rule) ==
    [type |-> rule.type, accountId |-> NoId, fromAccountId |-> NoId,
     toAccountId |-> NoId, categoryId |-> NoId, hasAmount |-> TRUE,
     amount |-> rule.amount, currency |-> rule.currency]

\* `today > endDate` in processRecurring, where today is the instant of the
\* call and endDate the midnight that starts end_date
endDatePassed(now, atMidnight, end_date) ==
    \/ dateAfter(now, end_date)
    \/ now = end_date /\ ~atMidnight

NoReturn == [recurring_transaction |-> <<>>, created_transaction |-> <<>>]

processRecurring_readableKeys(accts, txs, rules, userId, recurringId, now, atMidnight) ==
    LET failed(error) == [result |-> error, accounts |-> accts, transactions |-> txs,
                          recurring |-> rules, returned |-> NoReturn]
    IN IF ~recurringFound(rules, recurringId, userId)
       THEN failed("Recurring transaction not found")
       ELSE IF ~rules[recurringId].is_active
       THEN failed("Cannot process inactive recurring transaction")
       ELSE IF /\ rules[recurringId].end_date # NoDate
               /\ endDatePassed(now, atMidnight, rules[recurringId].end_date)
       THEN failed("Recurring transaction end date has passed")
       ELSE
           LET rule == rules[recurringId]
               r == createTransaction(accts, txs, userId, recurringTransactionData_camelCase(rule))
           IN IF r.result # "ok"
              THEN failed(r.result)
              ELSE [result |-> "ok", accounts |-> r.accounts,
                    transactions |-> r.transactions,
                    recurring |-> [rules EXCEPT ![recurringId].last_processed = now],
                    returned |-> [recurring_transaction |->
                                      [rule |-> rule, due |-> calculateNextDue(rule, now)],
                                  created_transaction |->
                                      r.transactions[Len(r.transactions)]]]
processRecurring(accts, txs, rules, userId, recurringId, now, atMidnight) ==
    LET failed(error) == [result |-> error, accounts |-> accts, transactions |-> txs,
                          recurring |-> rules, returned |-> NoReturn]
    IN IF ~recurringFound(rules, recurringId, userId)
       THEN failed("Recurring transaction not found")
       ELSE IF ~rules[recurringId].is_active
       THEN failed("Cannot process inactive recurring transaction")
       ELSE IF /\ rules[recurringId].end_date # NoDate
               /\ endDatePassed(now, atMidnight, rules[recurringId].end_date)
       THEN failed("Recurring transaction end date has passed")
       ELSE
           LET rule == rules[recurringId]
               r == createTransaction(accts, txs, userId, recurringTransactionData(rule))
           IN IF r.result # "ok"
              THEN failed(r.result)
              ELSE [result |-> "ok", accounts |-> r.accounts,
                    transactions |-> r.transactions,
                    recurring |-> [rules EXCEPT ![recurringId].last_processed = now],
                    returned |-> [recurring_transaction |->
                                      [rule |-> rule, due |-> calculateNextDue(rule, now)],
                                  created_transaction |->
                                      r.transactions[Len(r.transactions)]]]

\* rules of u1 on account 1, as createRecurring and updateRecurring leave them
StartDates == {Day(2025, 1, 15), Day(2025, 1, 31), Day(2024, 2, 29), Day(2025, 3, 1)}
EndDates == {NoDate, Day(2025, 2, 1), Day(2025, 2, 16), Day(2025, 3, 31)}
ProcessedDates == {NoDate, Day(2025, 2, 10), FirstDay}
Rules ==
    {rule \in [user_id : {"u1"}, account_id : {1}, type : {"expense"}, category_id : {1},
               amount : {20}, currency : {"USD"},
               frequency : {"daily", "weekly", "monthly", "yearly"}, interval : {1, 2},
               start_date : StartDates, end_date : EndDates,
               last_processed : ProcessedDates, is_active : BOOLEAN, deleted : {FALSE}] :
        /\ rule.end_date # NoDate => dateAfter(rule.end_date, rule.start_date)
        /\ rule.last_processed # NoDate => dateNotAfter(rule.start_date, rule.last_processed)}

\* ids a request may name: the rule and one beyond
RecurringArgs == {1, 2}

\* days from FirstDay to the day d of the same month
daysElapsed == today.d - FirstDay.d

\* midnight passes on the server
PassDay ==
    /\ daysElapsed < MaxDays
    /\ today' = setDate(today, today.d + 1)
    /\ UNCHANGED <<accounts, transactions, last, nops, recurring, categoryRows, budgets,
                   requests>>

DoProcessRecurring ==
    /\ \E userId \in Users, recurringId \in RecurringArgs, atMidnight \in BOOLEAN :
        LET r == processRecurring(accounts, transactions, recurring, userId, recurringId,
                                  today, atMidnight)
        IN /\ r.result = "ok" => Len(transactions) < MaxTx
           /\ accounts' = r.accounts
           /\ transactions' = r.transactions
           /\ recurring' = r.recurring
           /\ last' = [op |-> "processRecurring", user |-> userId, result |-> r.result,
                       id |-> recurringId, data |-> r.returned]
    /\ UNCHANGED <<nops, today, categoryRows, budgets, requests>>

InitRecurring ==
    /\ accounts = InitAccounts
    /\ transactions = <<>>
    /\ last = [op |-> "none", user |-> "u1", result |-> "ok", id |-> NoId,
               data |-> MemoPatch]
    /\ nops = 0
    /\ recurring \in {<<rule>> : rule \in Rules}
    /\ today = FirstDay
    /\ categoryRows = InitCategoryRows
    /\ budgets = InitBudgets
    /\ requests = <<>>

NextRecurring ==
    \/ PassDay
    \/ DoProcessRecurring

SpecRecurring == InitRecurring /\ [][NextRecurring]_vars

(* ---------------------------- C16 -------------------------------------- *)

\* days from 2024-01-01 to a calendar day
RECURSIVE DaysBeforeMonth(_, _)
DaysBeforeMonth(y, m) ==
    IF m = 1 THEN 0 ELSE DaysBeforeMonth(y, m - 1) + DaysInMonth(y, m - 1)
RECURSIVE DaysBeforeYear(_)
DaysBeforeYear(y) ==
    IF y <= 2024 THEN 0 ELSE DaysBeforeYear(y - 1) + (IF IsLeap(y - 1) THEN 366 ELSE 365)
DayNumber(date) == DaysBeforeYear(date.y) + DaysBeforeMonth(date.y, date.m) + date.d - 1

WellFormed(date) ==
    /\ date.m \in 1..12
    /\ date.d \in 1..DaysInMonth(date.y, date.m)

\* the rule's base date advanced by its interval: a count of days for daily
\* and weekly rules; for monthly and yearly rules the base's day of month
\* counted from the first day of the month that lies interval months (years)
\* after the base's month
Advanced(rule, next) ==
    LET base == IF rule.last_processed # NoDate THEN rule.last_processed ELSE rule.start_date
        months == base.y * 12 + (base.m - 1) + rule.interval
    IN /\ WellFormed(next)
       /\ rule.frequency = "daily" => DayNumber(next) = DayNumber(base) + rule.interval
       /\ rule.frequency = "weekly" => DayNumber(next) = DayNumber(base) + rule.interval * 7
       /\ rule.frequency = "monthly" =>
            DayNumber(next) = DayNumber(Day(months \div 12, (months % 12) + 1, 1)) + base.d - 1
       /\ rule.frequency = "yearly" =>
            DayNumber(next) = DayNumber(Day(base.y + rule.interval, base.m, 1)) + base.d - 1

RuleEnded(rule) ==
    /\ rule.end_date # NoDate
    /\ DayNumber(advance(IF rule.last_processed # NoDate THEN rule.last_processed
                         ELSE rule.start_date, rule.frequency, rule.interval))
         > DayNumber(rule.end_date)

C19_ProcessCreatesOneEntry ==
    [][(/\ Called("processRecurring")
        /\ recurringFound(recurring, last'.id, last'.user)
        /\ recurring[last'.id].is_active
        /\ ~RuleEnded(recurring[last'.id]))
       => LET rule == recurring[last'.id]
              n == Len(transactions)
          IN /\ last'.result = "ok"
             /\ Len(transactions') = n + 1
             /\ \A k \in 1..n : transactions'[k] = transactions[k]
             /\ transactions'[n + 1].account_id = rule.account_id
             /\ transactions'[n + 1].type = rule.type
             /\ transactions'[n + 1].category_id = rule.category_id
             /\ Abs(transactions'[n + 1].amount) = Abs(rule.amount)
             /\ transactions'[n + 1].currency = rule.currency
             /\ \A a \in DOMAIN accounts :
                    BalanceOf(accounts', a)
                      = BalanceOf(accounts, a) + Effect(transactions'[n + 1], a)
             /\ recurring' = [recurring EXCEPT ![last'.id].last_processed = today]
             /\ last'.data.recurring_transaction.rule = rule
             /\ last'.data.created_transaction = transactions'[n + 1]]_vars

(* --------------------------- CategoryService ---------------------------- *)

\* rows the categories table may hold
MaxCategories == 5
\* category service calls in one run
MaxCategoryOps == 3

\* .eq('id', id).eq('user_id', userId).is('deleted_at', null).single()
categoryRowFound(rows, id, userId) ==
    /\ id \in DOMAIN rows
    /\ rows[id].user_id = userId
    /\ ~rows[id].deleted

createCategory(rows, userId, categoryData) ==
    IF categoryData.parent_id # NoId
       /\ ~categoryRowFound(rows, categoryData.parent_id, userId)
    THEN [result |-> "Parent category not found", rows |-> rows]
    ELSE IF categoryData.parent_id # NoId
            /\ rows[categoryData.parent_id].type # categoryData.type
    THEN [result |-> "Parent category type must match child category type", rows |-> rows]
    ELSE [result |-> "ok",
          rows |-> Append(rows, [user_id |-> userId, type |-> categoryData.type,
                                 parent_id |-> categoryData.parent_id,
                                 deleted |-> FALSE])]

\* data?.parent_id of the lookup of currentId
parentOf(rows, userId, currentId) ==
    IF categoryRowFound(rows, currentId, userId) THEN rows[currentId].parent_id ELSE NoId

\* the while loop of wouldCreateCircularReference
RECURSIVE circularWalk(_, _, _, _, _)
circularWalk(rows, userId, categoryId, currentId, visited) ==
    IF currentId = NoId THEN FALSE
    ELSE IF currentId = categoryId THEN TRUE
    ELSE IF currentId \in visited THEN TRUE
    ELSE \E parentId \in {parentOf(rows, userId, currentId)} :
            circularWalk(rows, userId, categoryId, parentId, visited \cup {currentId})

wouldCreateCircularReference_parentOnly(rows, userId, categoryId, newParentId) ==
    newParentId = categoryId
wouldCreateCircularReference(rows, userId, categoryId, newParentId) ==
    circularWalk(rows, userId, categoryId, newParentId, {})

\* the while loop of _checkCircularReference
RECURSIVE checkWalk(_, _, _, _)
checkWalk(rows, userId, currentId, visited) ==
    IF currentId = NoId THEN FALSE
    ELSE IF currentId \in visited THEN TRUE
    ELSE \E parentId \in {parentOf(rows, userId, currentId)} :
            /\ parentId # NoId
            /\ checkWalk(rows, userId, parentId, visited \cup {currentId})

checkCircularReference(rows, userId, categoryId, newParentId) ==
    checkWalk(rows, userId, newParentId, {categoryId})

\* the row after .update({...updates})
updatedCategory(row, updates) ==
    [row EXCEPT !.parent_id = IF updates.hasParent THEN updates.parent_id ELSE @,
                !.type = IF updates.type # NoType THEN updates.type ELSE @]

\* src/services/category.service.js
updateCategory(rows, userId, categoryId, updates) ==
    IF ~categoryRowFound(rows, categoryId, userId)
    THEN [result |-> "Category not found", rows |-> rows]
    ELSE IF updates.hasParent /\ updates.parent_id = categoryId
    THEN [result |-> "Category cannot be its own parent", rows |-> rows]
    ELSE IF updates.hasParent /\ updates.parent_id # NoId
            /\ ~categoryRowFound(rows, updates.parent_id, userId)
    THEN [result |-> "Parent category not found", rows |-> rows]
    ELSE IF updates.hasParent /\ updates.parent_id # NoId
            /\ rows[updates.parent_id].type # rows[categoryId].type
    THEN [result |-> "Parent category type must match", rows |-> rows]
    ELSE IF updates.hasParent /\ updates.parent_id # NoId
            /\ wouldCreateCircularReference(rows, userId, categoryId, updates.parent_id)
    THEN [result |-> "This would create a circular reference", rows |-> rows]
    ELSE [result |-> "ok",
          rows |-> [rows EXCEPT ![categoryId] = updatedCategory(@, updates)]]

\* active rows whose parent is categoryId, of any user
subcategories(rows, categoryId) ==
    {c \in DOMAIN rows : rows[c].parent_id = categoryId /\ ~rows[c].deleted}

\* the later revision of the service
updateCategoryRevised(rows, userId, categoryId, updateData) ==
    LET checked == updateData.hasParent /\ updateData.parent_id # NoId
        targetType == IF updateData.type # NoType THEN updateData.type
                      ELSE rows[categoryId].type
    IN IF ~categoryRowFound(rows, categoryId, userId)
       THEN [result |-> "Category not found", rows |-> rows]
       ELSE IF checked /\ updateData.parent_id = categoryId
       THEN [result |-> "Category cannot be its own parent", rows |-> rows]
       ELSE IF checked /\ ~categoryRowFound(rows, updateData.parent_id, userId)
       THEN [result |-> "Parent category not found", rows |-> rows]
       ELSE IF checked /\ rows[updateData.parent_id].type # targetType
       THEN [result |-> "Parent category must be same type (income/expense)", rows |-> rows]
       ELSE IF checked
               /\ checkCircularReference(rows, userId, categoryId, updateData.parent_id)
       THEN [result |-> "Circular parent-child reference detected", rows |-> rows]
       ELSE IF /\ updateData.type # NoType
               /\ updateData.type # rows[categoryId].type
               /\ subcategories(rows, categoryId) # {}
       THEN [result |-> "Cannot change type of category with subcategories", rows |-> rows]
       ELSE [result |-> "ok",
             rows |-> [rows EXCEPT ![categoryId] = updatedCategory(@, updateData)]]

\* active entries that carry the category
categoryTransactions(txs, categoryId) ==
    {t \in DOMAIN txs : txs[t].category_id = categoryId /\ ~txs[t].deleted}

\* src/services/category.service.js: no lookup of the row itself; the update
\* matches the caller's row, deleted or not
deleteCategory(rows, txs, userId, categoryId) ==
    IF {c \in subcategories(rows, categoryId) : rows[c].user_id = userId} # {}
    THEN [result |-> "Cannot delete category with subcategories", rows |-> rows]
    ELSE IF {t \in categoryTransactions(txs, categoryId) : txs[t].user_id = userId} # {}
    THEN [result |-> "Cannot delete category with associated transactions", rows |-> rows]
    ELSE [result |-> "ok",
          rows |-> [c \in DOMAIN rows |->
                       IF c = categoryId /\ rows[c].user_id = userId
                       THEN [rows[c] EXCEPT !.deleted = TRUE] ELSE rows[c]]]

\* the later revision of the service
deleteCategoryRevised(rows, txs, userId, categoryId) ==
    IF ~categoryRowFound(rows, categoryId, userId)
    THEN [result |-> "Category not found", rows |-> rows]
    ELSE IF categoryTransactions(txs, categoryId) # {}
    THEN [result |-> "Cannot delete category with associated transactions", rows |-> rows]
    ELSE IF subcategories(rows, categoryId) # {}
    THEN [result |-> "Cannot delete category with subcategories", rows |-> rows]
    ELSE [result |-> "ok", rows |-> [rows EXCEPT ![categoryId].deleted = TRUE]]

\* ids a request may name: every row the table can hold and one beyond
CategoryArgs == 1..(MaxCategories + 1)

\* createCategory payloads: u1 names any parent, u2 none or a row of u1
CategoryPayloads(userId) ==
    IF userId = "u1"
    THEN [type : {"expense"}, parent_id : {NoId} \cup CategoryArgs, hasParent : {TRUE}]
         \cup [type : {"income"}, parent_id : {NoId, 1}, hasParent : {TRUE}]
    ELSE [type : {"expense"}, parent_id : {NoId, 1}, hasParent : {TRUE}]

\* updateCategory payloads: a new parent (null included), or a new type; u2
\* names no parent, its own row or a row of u1
CategoryUpdates(userId) ==
    IF userId = "u1"
    THEN [type : {NoType}, parent_id : {NoId} \cup CategoryArgs, hasParent : {TRUE}]
         \cup [type : {"income"}, parent_id : {NoId}, hasParent : {FALSE}]
    ELSE [type : {NoType}, parent_id : {NoId, 1, 3}, hasParent : {TRUE}]

\* the table after the call, and the call's name, caller, target, payload and
\* result
CommitCategory(op, userId, id, data, r) ==
    /\ nops < MaxCategoryOps
    /\ categoryRows' = r.rows
    /\ last' = [op |-> op, user |-> userId, result |-> r.result, id |-> id, data |-> data]
    /\ nops' = nops + 1
    /\ UNCHANGED <<accounts, transactions, recurring, today, budgets, requests>>

DoCreateCategory ==
    /\ Len(categoryRows) < MaxCategories
    /\ \E userId \in Users :
       \E categoryData \in CategoryPayloads(userId) :
        CommitCategory("createCategory", userId, NoId, categoryData,
                       createCategory(categoryRows, userId, categoryData))

DoUpdateCategory ==
    \E userId \in Users, categoryId \in CategoryArgs :
      \E updates \in CategoryUpdates(userId) :
        CommitCategory("updateCategory", userId, categoryId, updates,
                       updateCategory(categoryRows, userId, categoryId, updates))

DoUpdateCategoryRevised ==
    \E userId \in Users, categoryId \in CategoryArgs :
      \E updateData \in CategoryUpdates(userId) :
        CommitCategory("updateCategoryRevised", userId, categoryId, updateData,
                       updateCategoryRevised(categoryRows, userId, categoryId, updateData))

DoDeleteCategory ==
    \E userId \in Users, categoryId \in CategoryArgs :
        CommitCategory("deleteCategory", userId, categoryId, MemoPatch,
                       deleteCategory(categoryRows, transactions, userId, categoryId))

DoDeleteCategoryRevised ==
    \E userId \in Users, categoryId \in CategoryArgs :
        CommitCategory("deleteCategoryRevised", userId, categoryId, MemoPatch,
                       deleteCategoryRevised(categoryRows, transactions, userId, categoryId))

NextCategories ==
    \/ DoCreateCategory
    \/ DoUpdateCategory
    \/ DoUpdateCategoryRevised
    \/ DoDeleteCategory
    \/ DoDeleteCategoryRevised

SpecCategories == Init /\ [][NextCategories]_vars

(* ---------------------------- C20 -------------------------------------- *)

\* the parent of an active category, when that parent is active too
ActiveParent(rows, c) ==
    IF /\ c \in DOMAIN rows
       /\ ~rows[c].deleted
       /\ rows[c].parent_id \in DOMAIN rows
       /\ ~rows[rows[c].parent_id].deleted
    THEN rows[c].parent_id ELSE NoId

\* the active categories reached from c by n or fewer parent steps, c excluded
\* unless a step leads back to it
RECURSIVE AncestorsWithin(_, _, _)
AncestorsWithin(rows, c, n) ==
    IF n = 0 THEN {}
    ELSE UNION {IF p = NoId THEN {} ELSE {p} \cup AncestorsWithin(rows, p, n - 1) :
                    p \in {ActiveParent(rows, c)}}

Ancestors(rows, c) == AncestorsWithin(rows, c, Len(rows))

Acyclic(rows) == \A c \in DOMAIN rows : c \notin Ancestors(rows, c)

\* C20: the parent relation over active categories stays acyclic under
\* createCategory, updateCategory and deleteCategory, and an updateCategory
\* whose new parent is the category itself or one of its descendants is
\* rejected with the table unchanged.
C20_CategoryParentsAcyclic ==
    [][/\ Acyclic(categoryRows')
       /\ ((Called("updateCategory") \/ Called("updateCategoryRevised"))
           /\ categoryRowFound(categoryRows, last'.id, last'.user)
           /\ last'.data.hasParent
           /\ last'.data.parent_id \in DOMAIN categoryRows
           /\ (\/ last'.data.parent_id = last'.id
               \/ last'.id \in Ancestors(categoryRows, last'.data.parent_id)))
          => (last'.result # "ok" /\ categoryRows' = categoryRows)]_vars

\* a grandchild proposed as the parent of its grandparent, and rejected
C20_Witness ==
    /\ last.op = "updateCategory"
    /\ last.result = "This would create a circular reference"
    /\ last.data.parent_id # last.id
    /\ ActiveParent(categoryRows, last.data.parent_id) # last.id
    /\ last.id \in Ancestors(categoryRows, last.data.parent_id)

(* ---------------------------- C21 -------------------------------------- *)

\* C21: every active category whose parent is an active category has that
\* parent's type.
C21_ChildTypeMatchesParent ==
    \A c \in DOMAIN categoryRows :
        ActiveParent(categoryRows, c) # NoId =>
            categoryRows[c].type = categoryRows[ActiveParent(categoryRows, c)].type

(* ----------------------------- BudgetService ---------------------------- *)

\* rows the budgets table may hold
MaxBudgets == 4
\* budget service calls in one run
MaxBudgetOps == 3

\* an absent month in a payload
NoMonth == ""

\* the caller's active budgets of a category and month, budgetId excepted
\* (.neq('id', budgetId); createBudget excepts no row)
matchingBudgets_deletedOnly(rows, userId, categoryId, month, budgetId) ==
    {b \in DOMAIN rows :
        /\ rows[b].user_id = userId
        /\ rows[b].category_id = categoryId
        /\ rows[b].month = month
        /\ rows[b].deleted
        /\ b # budgetId}
matchingBudgets(rows, userId, categoryId, month, budgetId) ==
    {b \in DOMAIN rows :
        /\ rows[b].user_id = userId
        /\ rows[b].category_id = categoryId
        /\ rows[b].month = month
        /\ ~rows[b].deleted
        /\ b # budgetId}

\* .single(): data is null unless exactly one row matches
singleBudget(rows, userId, categoryId, month, budgetId) ==
    Cardinality(matchingBudgets(rows, userId, categoryId, month, budgetId)) = 1

createBudget(rows, cats, userId, budgetData) ==
    IF ~categoryRowFound(cats, budgetData.category_id, userId)
    THEN [result |-> "Category not found", rows |-> rows]
    ELSE IF cats[budgetData.category_id].type # "expense"
    THEN [result |-> "Budgets can only be created for expense categories", rows |-> rows]
    ELSE IF singleBudget(rows, userId, budgetData.category_id, budgetData.month, NoId)
    THEN [result |-> "Budget already exists for this category and month", rows |-> rows]
    ELSE [result |-> "ok",
          rows |-> Append(rows, [user_id |-> userId,
                                 category_id |-> budgetData.category_id,
                                 month |-> budgetData.month,
                                 budgeted |-> budgetData.budgeted,
                                 deleted |-> FALSE])]

budgetFound(rows, budgetId, userId) ==
    /\ budgetId \in DOMAIN rows
    /\ rows[budgetId].user_id = userId
    /\ ~rows[budgetId].deleted

\* the row after .update({...updates})
updatedBudget(row, updates) ==
    [row EXCEPT !.category_id = IF updates.category_id # NoId THEN updates.category_id ELSE @,
                !.month = IF updates.month # NoMonth THEN updates.month ELSE @,
                !.budgeted = IF updates.hasBudgeted THEN updates.budgeted ELSE @]

updateBudget(rows, cats, userId, budgetId, updates) ==
    IF ~budgetFound(rows, budgetId, userId)
    THEN [result |-> "Budget not found", rows |-> rows]
    ELSE
        LET existing == rows[budgetId]
            newCategory == updates.category_id # NoId
                           /\ updates.category_id # existing.category_id
            newMonth == updates.month # NoMonth /\ updates.month # existing.month
        IN IF newCategory /\ ~categoryRowFound(cats, updates.category_id, userId)
           THEN [result |-> "Category not found", rows |-> rows]
           ELSE IF newCategory /\ cats[updates.category_id].type # "expense"
           THEN [result |-> "Budgets can only be created for expense categories",
                 rows |-> rows]
           ELSE IF newCategory
                   /\ singleBudget(rows, userId, updates.category_id,
                                   IF updates.month # NoMonth THEN updates.month
                                   ELSE existing.month, budgetId)
           THEN [result |-> "Budget already exists for this category and month",
                 rows |-> rows]
           ELSE IF newMonth
                   /\ singleBudget(rows, userId,
                                   IF updates.category_id # NoId THEN updates.category_id
                                   ELSE existing.category_id, updates.month, budgetId)
           THEN [result |-> "Budget already exists for this category and month",
                 rows |-> rows]
           ELSE [result |-> "ok",
                 rows |-> [rows EXCEPT ![budgetId] = updatedBudget(@, updates)]]

deleteBudget(rows, userId, budgetId) ==
    IF ~budgetFound(rows, budgetId, userId)
    THEN [result |-> "Budget not found", rows |-> rows]
    ELSE [result |-> "ok", rows |-> [rows EXCEPT ![budgetId].deleted = TRUE]]

Months == {"2025-01", "2025-02"}

\* ids a request may name: every row the table can hold and one beyond
BudgetArgs == 1..(MaxBudgets + 1)

\* createBudget payloads: an own category in either month, or a deleted,
\* foreign or missing category
BudgetPayloads(userId) ==
    [category_id : IF userId = "u1" THEN {1, 4} ELSE {3}, month : Months, budgeted : {100}]
    \cup
    [category_id : IF userId = "u1" THEN {2, 3, MaxCategories + 1} ELSE {1},
     month : {"2025-01"}, budgeted : {100}]

\* updateBudget payloads: a new category, a new month, both, or a new amount
BudgetUpdates(userId) ==
    [category_id : IF userId = "u1" THEN {NoId, 1, 4} ELSE {NoId, 3},
     month : {NoMonth} \cup Months, hasBudgeted : {FALSE}, budgeted : {0}]
    \cup
    [category_id : IF userId = "u1" THEN {2, 3} ELSE {1},
     month : {NoMonth}, hasBudgeted : {FALSE}, budgeted : {0}]
    \cup
    [category_id : {NoId}, month : {NoMonth}, hasBudgeted : {TRUE}, budgeted : {200}]

\* a payload that names neither category nor month
AmountUpdate == [category_id |-> NoId, month |-> NoMonth, hasBudgeted |-> TRUE,
                 budgeted |-> 200]

\* the table after the call, and the call's name, caller, target, payload and
\* result
CommitBudget(op, userId, id, data, r) ==
    /\ nops < MaxBudgetOps
    /\ budgets' = r.rows
    /\ last' = [op |-> op, user |-> userId, result |-> r.result, id |-> id, data |-> data]
    /\ nops' = nops + 1
    /\ UNCHANGED <<accounts, transactions, recurring, today, categoryRows, requests>>

DoCreateBudget ==
    /\ Len(budgets) < MaxBudgets
    /\ \E userId \in Users :
       \E budgetData \in BudgetPayloads(userId) :
        CommitBudget("createBudget", userId, NoId, budgetData,
                     createBudget(budgets, categoryRows, userId, budgetData))

\* the payload is read only once the row is found
DoUpdateBudget ==
    \E userId \in Users, budgetId \in BudgetArgs :
      \E updates \in IF budgetFound(budgets, budgetId, userId)
                     THEN BudgetUpdates(userId) ELSE {AmountUpdate} :
        CommitBudget("updateBudget", userId, budgetId, updates,
                     updateBudget(budgets, categoryRows, userId, budgetId, updates))

DoDeleteBudget ==
    \E userId \in Users, budgetId \in BudgetArgs :
        CommitBudget("deleteBudget", userId, budgetId, AmountUpdate,
                     deleteBudget(budgets, userId, budgetId))

NextBudgets ==
    \/ DoCreateBudget
    \/ DoUpdateBudget
    \/ DoDeleteBudget

SpecBudgets == Init /\ [][NextBudgets]_vars

(* ---------------------------- C22 -------------------------------------- *)

\* active budgets of one user, category and month
SameSlot(rows, a, b) ==
    /\ rows[a].user_id = rows[b].user_id
    /\ rows[a].category_id = rows[b].category_id
    /\ rows[a].month = rows[b].month

OnePerSlot(rows) ==
    \A a, b \in DOMAIN rows :
        (~rows[a].deleted /\ ~rows[b].deleted /\ SameSlot(rows, a, b)) => a = b

\* the caller has an active budget, other than row id, in the slot
SlotTaken(rows, userId, categoryId, month, id) ==
    \E b \in DOMAIN rows \ {id} :
        /\ ~rows[b].deleted
        /\ rows[b].user_id = userId
        /\ rows[b].category_id = categoryId
        /\ rows[b].month = month

ExpenseCategoryOf(userId, categoryId) ==
    /\ categoryRowFound(categoryRows, categoryId, userId)
    /\ categoryRows[categoryId].type = "expense"

\* C22: a user never has two active budgets for one category and month; a
\* createBudget or updateBudget that would produce a second one is rejected
\* with 'Budget already exists for this category and month' and the table
\* is unchanged.
C22_OneBudgetPerCategoryMonth ==
    [][/\ OnePerSlot(budgets')
       /\ (/\ Called("createBudget")
           /\ ExpenseCategoryOf(last'.user, last'.data.category_id)
           /\ SlotTaken(budgets, last'.user, last'.data.category_id, last'.data.month, NoId))
          => (/\ last'.result = "Budget already exists for this category and month"
              /\ budgets' = budgets)
       /\ (/\ Called("updateBudget")
           /\ budgetFound(budgets, last'.id, last'.user)
           /\ LET old == budgets[last'.id]
                  new == updatedBudget(old, last'.data)
              IN /\ <<new.category_id, new.month>> # <<old.category_id, old.month>>
                 /\ ExpenseCategoryOf(last'.user, new.category_id)
                 /\ SlotTaken(budgets, last'.user, new.category_id, new.month, last'.id))
          => (/\ last'.result = "Budget already exists for this category and month"
              /\ budgets' = budgets)]_vars

\* an update that moves a budget into a slot another budget holds, rejected
C22_Witness ==
    /\ last.op = "updateBudget"
    /\ last.result = "Budget already exists for this category and month"
    /\ last.data.month # NoMonth
    /\ last.data.category_id = NoId
    /\ Cardinality({b \in DOMAIN budgets : ~budgets[b].deleted /\ budgets[b].user_id = "u1"}) >= 2

(* ---------------------------- C23 -------------------------------------- *)

\* the rows of a table that the caller of the step does not own are the same
\* before and after it
ForeignRowsKept(before, after) ==
    \A k \in DOMAIN before :
        before[k].user_id # last'.user => (k \in DOMAIN after /\ after[k] = before[k])

\* calls whose target is an entry, and calls whose target is an account
EntryCalls == {"updateTransaction", "deleteTransaction", "toggleReconciliation"}
AccountCalls == {"updateAccount", "deleteAccount", "deleteAccountRevised"}

\* C23: a call made for one user leaves every account and entry of another
\* user as it was, and a call that names another user's entry or account as
\* its target fails.
C23_OtherUsersRowsUntouched ==
    [][/\ ForeignRowsKept(accounts, accounts')
       /\ ForeignRowsKept(transactions, transactions')
       /\ (/\ last'.op \in EntryCalls
           /\ last'.id \in DOMAIN transactions
           /\ transactions[last'.id].user_id # last'.user) => last'.result # "ok"
       /\ (/\ last'.op \in AccountCalls
           /\ last'.id \in DOMAIN accounts
           /\ accounts[last'.id].user_id # last'.user) => last'.result # "ok"]_vars

(* ---------------------------- C24 -------------------------------------- *)

\* C24: deleting an entry that was created and never updated takes its effect
\* back out of every balance, so that each balance is again the opening
\* balance plus the effects of the entries that remain, as if the entry had
\* never been created.
C24_DeleteUndoesCreate ==
    [][Succeeded("deleteTransaction") =>
        \A a \in DOMAIN accounts :
            /\ BalanceOf(accounts', a)
                 = BalanceOf(accounts, a) - Effect(transactions[last'.id], a)
            /\ BalanceOf(accounts', a)
                 = accounts[a].opening_balance
                   + SumEffects(transactions', a, Len(transactions'))]_vars

\* a transfer deleted while an income entry of its source account remains
C24_Witness ==
    /\ last.op = "deleteTransaction"
    /\ last.result = "ok"
    /\ transactions[last.id].type = "transfer"
    /\ \E t \in DOMAIN transactions :
        /\ ~transactions[t].deleted
        /\ transactions[t].type = "income"
        /\ transactions[t].account_id = transactions[last.id].from_account_id

(* ---------------------------- C25 -------------------------------------- *)

\* the rule is active, not ended, and its next due date is not after today
RuleDue(rule, now) ==
    /\ rule.is_active
    /\ ~RuleEnded(rule)
    /\ DayNumber(advance(IF rule.last_processed # NoDate THEN rule.last_processed
                         ELSE rule.start_date, rule.frequency, rule.interval))
         <= DayNumber(now)

RequestIds == {1, 2}

\* the store before the requests: the income entry 1 of 20 on account 1
ConcurrentAccounts == [InitAccounts EXCEPT ![1].current_balance = 120]
ConcurrentTransactions ==
    <<[user_id |-> "u1", type |-> "income", account_id |-> 1, from_account_id |-> NoId,
       to_account_id |-> NoId, category_id |-> NoId, amount |-> 20, currency |-> "USD",
       is_reconciled |-> FALSE, deleted |-> FALSE]>>

\* a request's arguments
Request(op, transactionId, type, accountId, fromAccountId, toAccountId, amount) ==
    [op |-> op, userId |-> "u1", transactionId |-> transactionId, type |-> type,
     accountId |-> accountId, fromAccountId |-> fromAccountId,
     toAccountId |-> toAccountId, amount |-> amount]

\* an income on account 1 or 2, a transfer from 1 to 2, a new amount for entry
\* 1, the deletion of entry 1 or 2, and the deletion of account 2
ConcurrentRequests ==
    {Request("createTransaction", NoId, "income", 1, NoId, NoId, 20),
     Request("createTransaction", NoId, "income", 2, NoId, NoId, 20),
     Request("createTransaction", NoId, "transfer", NoId, 1, 2, 30),
     Request("updateTransaction", 1, NoType, NoId, NoId, NoId, 50),
     Request("deleteTransaction", 1, NoType, NoId, NoId, NoId, 0),
     Request("deleteTransaction", 2, NoType, NoId, NoId, NoId, 0),
     Request("deleteAccount", NoId, NoType, 2, NoId, NoId, 0)}

\* a handler's local variables before it has read anything
NoRow == [type |-> NoType]
Locals == [transaction |-> NoRow, account |-> 0, fromAccount |-> 0, toAccount |-> 0]

\* current_balance: account.current_balance + transactionAmount
balanceToWrite_fromStore(accts, accountId, readBalance, delta) ==
    accts[accountId].current_balance + delta
balanceToWrite(accts, accountId, readBalance, delta) == readBalance + delta

\* current_balance: account.current_balance - transaction.amount
revertedBalance_asRead(readBalance, amount) == readBalance
revertedBalance(readBalance, amount) == readBalance - amount

At(r, pc) == r \in DOMAIN requests /\ requests[r].pc = pc
Goto(r, pc) == requests' = [requests EXCEPT ![r].pc = pc]
StoreKept == UNCHANGED <<accounts, transactions>>
OthersKept == UNCHANGED <<last, nops, recurring, today, categoryRows, budgets>>

\* a request arrives
StartRequest ==
    /\ Len(requests) < Cardinality(RequestIds)
    /\ \E request \in ConcurrentRequests :
        requests' = Append(requests,
            [request |-> request, locals |-> Locals,
             pc |-> IF request.op = "createTransaction"
                    THEN (IF request.type = "transfer" THEN "readFrom" ELSE "readAccount")
                    ELSE IF request.op = "deleteAccount" THEN "findAccount"
                    ELSE "fetch"])
    /\ StoreKept /\ OthersKept

\* createTransaction, income/expense: the account lookup
CreateReadAccount ==
    \E r \in RequestIds :
        /\ At(r, "readAccount")
        /\ LET q == requests[r].request
           IN IF accountFound(accounts, q.accountId, q.userId)
              THEN requests' = [requests EXCEPT
                       ![r].locals.account = accounts[q.accountId].current_balance,
                       ![r].pc = "insert"]
              ELSE Goto(r, "failed")
        /\ StoreKept /\ OthersKept

\* the insert into transactions
CreateInsert ==
    \E r \in RequestIds :
        /\ At(r, "insert")
        /\ LET q == requests[r].request
           IN transactions' = Append(transactions,
                  [user_id |-> q.userId, type |-> q.type, account_id |-> q.accountId,
                   from_account_id |-> NoId, to_account_id |-> NoId,
                   category_id |-> NoId, amount |-> signedAmount(q.type, q.amount),
                   currency |-> accounts[q.accountId].currency,
                   is_reconciled |-> FALSE, deleted |-> FALSE])
        /\ Goto(r, "writeBalance")
        /\ UNCHANGED accounts /\ OthersKept

\* the balance update
CreateWriteBalance ==
    \E r \in RequestIds :
        /\ At(r, "writeBalance")
        /\ LET q == requests[r].request
           IN accounts' = writeBalance(accounts, q.accountId,
                  balanceToWrite(accounts, q.accountId, requests[r].locals.account,
                                 signedAmount(q.type, q.amount)))
        /\ Goto(r, "done")
        /\ UNCHANGED transactions /\ OthersKept

\* createTransaction, transfer: the two account lookups
TransferReadFrom ==
    \E r \in RequestIds :
        /\ At(r, "readFrom")
        /\ LET q == requests[r].request
           IN IF accountFound(accounts, q.fromAccountId, q.userId)
              THEN requests' = [requests EXCEPT
                       ![r].locals.fromAccount = accounts[q.fromAccountId].current_balance,
                       ![r].pc = "readTo"]
              ELSE Goto(r, "failed")
        /\ StoreKept /\ OthersKept

TransferReadTo ==
    \E r \in RequestIds :
        /\ At(r, "readTo")
        /\ LET q == requests[r].request
           IN IF accountFound(accounts, q.toAccountId, q.userId)
              THEN requests' = [requests EXCEPT
                       ![r].locals.toAccount = accounts[q.toAccountId].current_balance,
                       ![r].pc = "insertTransfer"]
              ELSE Goto(r, "failed")
        /\ StoreKept /\ OthersKept

TransferInsert ==
    \E r \in RequestIds :
        /\ At(r, "insertTransfer")
        /\ LET q == requests[r].request
           IN transactions' = Append(transactions,
                  [user_id |-> q.userId, type |-> "transfer", account_id |-> NoId,
                   from_account_id |-> q.fromAccountId, to_account_id |-> q.toAccountId,
                   category_id |-> NoId, amount |-> transferMagnitude(q.amount),
                   currency |-> accounts[q.fromAccountId].currency,
                   is_reconciled |-> FALSE, deleted |-> FALSE])
        /\ Goto(r, "debit")
        /\ UNCHANGED accounts /\ OthersKept

TransferDebit ==
    \E r \in RequestIds :
        /\ At(r, "debit")
        /\ LET q == requests[r].request
           IN accounts' = writeBalance(accounts, q.fromAccountId,
                  requests[r].locals.fromAccount - transferMagnitude(q.amount))
        /\ Goto(r, "credit")
        /\ UNCHANGED transactions /\ OthersKept

TransferCredit ==
    \E r \in RequestIds :
        /\ At(r, "credit")
        /\ LET q == requests[r].request
           IN accounts' = writeBalance(accounts, q.toAccountId,
                  requests[r].locals.toAccount + transferMagnitude(q.amount))
        /\ Goto(r, "done")
        /\ UNCHANGED transactions /\ OthersKept

\* updateTransaction and deleteTransaction: the lookup of the entry
FetchTransaction ==
    \E r \in RequestIds :
        /\ At(r, "fetch")
        /\ LET q == requests[r].request
           IN IF transactionFound(transactions, q.transactionId, q.userId)
              THEN requests' = [requests EXCEPT
                       ![r].locals.transaction = transactions[q.transactionId],
                       ![r].pc = IF transactions[q.transactionId].type = "transfer"
                                 THEN "revertReadFrom" ELSE "revertRead"]
              ELSE Goto(r, "failed")
        /\ StoreKept /\ OthersKept

\* where the handler goes on after revertTransactionBalance
AfterRevert(r) ==
    IF requests[r].request.op = "deleteTransaction" THEN "softDelete" ELSE "readTarget"

\* revertTransactionBalance of an income/expense entry: read, then write
RevertRead ==
    \E r \in RequestIds :
        /\ At(r, "revertRead")
        /\ LET transaction == requests[r].locals.transaction
           IN IF accountExists(accounts, transaction.account_id)
              THEN requests' = [requests EXCEPT
                       ![r].locals.account = accounts[transaction.account_id].current_balance,
                       ![r].pc = "revertWrite"]
              ELSE Goto(r, AfterRevert(r))
        /\ StoreKept /\ OthersKept

RevertWrite ==
    \E r \in RequestIds :
        /\ At(r, "revertWrite")
        /\ LET transaction == requests[r].locals.transaction
           IN accounts' = writeBalance(accounts, transaction.account_id,
                  revertedBalance(requests[r].locals.account, transaction.amount))
        /\ Goto(r, AfterRevert(r))
        /\ UNCHANGED transactions /\ OthersKept

\* revertTransactionBalance of a transfer: two reads, then two writes
RevertReadFrom ==
    \E r \in RequestIds :
        /\ At(r, "revertReadFrom")
        /\ LET transaction == requests[r].locals.transaction
           IN requests' = [requests EXCEPT
                  ![r].locals.fromAccount =
                      accounts[transaction.from_account_id].current_balance,
                  ![r].pc = "revertReadTo"]
        /\ StoreKept /\ OthersKept

RevertReadTo ==
    \E r \in RequestIds :
        /\ At(r, "revertReadTo")
        /\ LET transaction == requests[r].locals.transaction
           IN requests' = [requests EXCEPT
                  ![r].locals.toAccount =
                      accounts[transaction.to_account_id].current_balance,
                  ![r].pc = "revertWriteFrom"]
        /\ StoreKept /\ OthersKept

RevertWriteFrom ==
    \E r \in RequestIds :
        /\ At(r, "revertWriteFrom")
        /\ LET transaction == requests[r].locals.transaction
           IN accounts' = writeBalance(accounts, transaction.from_account_id,
                  requests[r].locals.fromAccount + transaction.amount)
        /\ Goto(r, "revertWriteTo")
        /\ UNCHANGED transactions /\ OthersKept

RevertWriteTo ==
    \E r \in RequestIds :
        /\ At(r, "revertWriteTo")
        /\ LET transaction == requests[r].locals.transaction
           IN accounts' = writeBalance(accounts, transaction.to_account_id,
                  requests[r].locals.toAccount - transaction.amount)
        /\ Goto(r, AfterRevert(r))
        /\ UNCHANGED transactions /\ OthersKept

\* deleteTransaction: the soft delete, filtered by id alone
SoftDelete ==
    \E r \in RequestIds :
        /\ At(r, "softDelete")
        /\ transactions' = [transactions EXCEPT
               ![requests[r].request.transactionId].deleted = TRUE]
        /\ Goto(r, "done")
        /\ UNCHANGED accounts /\ OthersKept

\* updateTransaction, income/expense: the lookup of the target account
UpdateReadTarget ==
    \E r \in RequestIds :
        /\ At(r, "readTarget")
        /\ LET q == requests[r].request
               targetAccountId == requests[r].locals.transaction.account_id
           IN IF accountFound(accounts, targetAccountId, q.userId)
              THEN requests' = [requests EXCEPT
                       ![r].locals.account = accounts[targetAccountId].current_balance,
                       ![r].pc = "updateRow"]
              ELSE Goto(r, "failed")
        /\ StoreKept /\ OthersKept

\* the update of the row, filtered by id alone
UpdateRow ==
    \E r \in RequestIds :
        /\ At(r, "updateRow")
        /\ LET q == requests[r].request
               oldTransaction == requests[r].locals.transaction
           IN transactions' = [transactions EXCEPT ![q.transactionId] =
                  [@ EXCEPT !.type = oldTransaction.type,
                            !.account_id = oldTransaction.account_id,
                            !.category_id = oldTransaction.category_id,
                            !.amount = signedAmount(oldTransaction.type, q.amount),
                            !.currency = oldTransaction.currency]]
        /\ Goto(r, "applyBalance")
        /\ UNCHANGED accounts /\ OthersKept

UpdateApplyBalance ==
    \E r \in RequestIds :
        /\ At(r, "applyBalance")
        /\ LET q == requests[r].request
               oldTransaction == requests[r].locals.transaction
           IN accounts' = writeBalance(accounts, oldTransaction.account_id,
                  balanceToWrite(accounts, oldTransaction.account_id,
                                 requests[r].locals.account,
                                 signedAmount(oldTransaction.type, q.amount)))
        /\ Goto(r, "done")
        /\ UNCHANGED transactions /\ OthersKept

\* deleteAccount: the lookup, the count of active entries, the soft delete
DeleteAccountFind ==
    \E r \in RequestIds :
        /\ At(r, "findAccount")
        /\ LET q == requests[r].request
           IN IF accountFound(accounts, q.accountId, q.userId)
              THEN Goto(r, "countEntries") ELSE Goto(r, "failed")
        /\ StoreKept /\ OthersKept

DeleteAccountCount ==
    \E r \in RequestIds :
        /\ At(r, "countEntries")
        /\ IF accountReferenced(transactions, requests[r].request.accountId)
           THEN Goto(r, "failed") ELSE Goto(r, "softDeleteAccount")
        /\ StoreKept /\ OthersKept

DeleteAccountSoftDelete ==
    \E r \in RequestIds :
        /\ At(r, "softDeleteAccount")
        /\ accounts' = [accounts EXCEPT ![requests[r].request.accountId].deleted = TRUE]
        /\ Goto(r, "done")
        /\ UNCHANGED transactions /\ OthersKept

InitConcurrent ==
    /\ accounts = ConcurrentAccounts
    /\ transactions = ConcurrentTransactions
    /\ last = [op |-> "none", user |-> "u1", result |-> "ok", id |-> NoId,
               data |-> MemoPatch]
    /\ nops = 0
    /\ recurring = <<>>
    /\ today = FirstDay
    /\ categoryRows = InitCategoryRows
    /\ budgets = InitBudgets
    /\ requests = <<>>

NextConcurrent ==
    \/ StartRequest
    \/ CreateReadAccount
    \/ CreateInsert
    \/ CreateWriteBalance
    \/ TransferReadFrom
    \/ TransferReadTo
    \/ TransferInsert
    \/ TransferDebit
    \/ TransferCredit
    \/ FetchTransaction
    \/ RevertRead
    \/ RevertWrite
    \/ RevertReadFrom
    \/ RevertReadTo
    \/ RevertWriteFrom
    \/ RevertWriteTo
    \/ SoftDelete
    \/ UpdateReadTarget
    \/ UpdateRow
    \/ UpdateApplyBalance
    \/ DeleteAccountFind
    \/ DeleteAccountCount
    \/ DeleteAccountSoftDelete

SpecConcurrent == InitConcurrent /\ [][NextConcurrent]_vars

(* ---------------------------- C26 -------------------------------------- *)

Moved(r, from, to) == requests[r].pc = from /\ requests'[r].pc = to
Finished(r) == r \in DOMAIN requests /\ requests[r].pc \in {"done", "failed"}
Done(r) == r \in DOMAIN requests /\ requests[r].pc = "done"

\* C26: the balance a createTransaction, updateTransaction or
\* deleteTransaction request writes is computed from the balance that request
\* read at an earlier step, whatever the account holds by then; nothing
\* re-reads or compares it, so two requests on the same account whose steps
\* interleave can finish with both entry changes persisted and
\* current_balance reflecting only one of them.
C26_BalanceWrittenFromEarlierRead ==
    [][\A r \in DOMAIN requests :
        LET q == requests[r].request
            read == requests[r].locals
        IN /\ Moved(r, "writeBalance", "done") =>
                  BalanceOf(accounts', q.accountId) =
                      read.account + signedAmount(q.type, q.amount)
           /\ Moved(r, "applyBalance", "done") =>
                  BalanceOf(accounts', read.transaction.account_id) =
                      read.account + signedAmount(read.transaction.type, q.amount)
           /\ requests[r].pc = "revertWrite" /\ requests'[r].pc # "revertWrite" =>
                  BalanceOf(accounts', read.transaction.account_id) =
                      read.account - read.transaction.amount]_vars

\* two incomes of 20 were created on account 1 concurrently: both entries
\* are stored and active, and the balance holds only one of them
C26_Witness ==
    /\ Len(requests) = 2
    /\ \A r \in DOMAIN requests :
        /\ Done(r)
        /\ requests[r].request.op = "createTransaction"
        /\ requests[r].request.type = "income"
        /\ requests[r].request.accountId = 1
    /\ Len(transactions) = Len(ConcurrentTransactions) + 2
    /\ \A i \in DOMAIN transactions : ~transactions[i].deleted
    /\ BalanceOf(accounts, 1) = BalanceOf(ConcurrentAccounts, 1) + 20
    /\ ~C1_BalanceMatchesLedger

(* ---------------------------- C27 -------------------------------------- *)

\* the positions between two store writes of one handler: after the insert and
\* before the balance write (create), after the insert and between the debit
\* and the credit (transfer), between revert and apply (update), between
\* revert and soft delete (delete)
BetweenWrites ==
    {"writeBalance", "debit", "credit", "readTarget", "updateRow", "applyBalance",
     "softDelete"}

\* one request ran alone and stopped at the given position
StoppedAt(pcs) == Len(requests) = 1 /\ requests[1].pc \in pcs

\* C27: a request that runs alone and stops between two of its store writes
\* leaves a store in which some account's current_balance differs from its
\* opening_balance plus the effects of its active entries.
C27_StoppedBetweenWritesBreaksLedger ==
    StoppedAt(BetweenWrites) => ~C1_BalanceMatchesLedger

\* a transfer stopped after its debit and before its credit
C27_Witness ==
    /\ StoppedAt({"credit"})
    /\ BalanceOf(accounts, 1) = BalanceOf(ConcurrentAccounts, 1) - 30
    /\ BalanceOf(accounts, 2) = BalanceOf(ConcurrentAccounts, 2)
    /\ ~C1_BalanceMatchesLedger

(* ---------------------------- C29 -------------------------------------- *)

BothDelete(transactionId) ==
    /\ Len(requests) = 2
    /\ \A r \in DOMAIN requests :
        /\ requests[r].request.op = "deleteTransaction"
        /\ requests[r].request.transactionId = transactionId
        /\ Finished(r)

\* C29: when two deleteTransaction requests for the same entry have both
\* finished, the account's balance is the balance before minus the entry's
\* effect, however their steps interleaved.
C29_ConcurrentDeletesRevertOnce ==
    BothDelete(1) =>
        BalanceOf(accounts, 1) =
            BalanceOf(ConcurrentAccounts, 1) - Effect(ConcurrentTransactions[1], 1)

(* ---------------------------- C30 -------------------------------------- *)

\* a deleteAccount request and a request that creates an entry on the same
\* account have both finished
DeleteAccountRacedEntry ==
    \E d, e \in DOMAIN requests :
        /\ requests[d].request.op = "deleteAccount"
        /\ requests[e].request.op = "createTransaction"
        /\ requests[d].request.accountId \in
               {requests[e].request.accountId, requests[e].request.fromAccountId,
                requests[e].request.toAccountId}
        /\ Finished(d) /\ Finished(e)

\* C30: when deleteAccount ran concurrently with a createTransaction on the
\* same account, no active entry references a soft-deleted account once both
\* have finished.
C30_NoEntryOnConcurrentlyDeletedAccount ==
    DeleteAccountRacedEntry => NoActiveEntryOnDeletedAccount(accounts, transactions)

(* ---------------------------- C28 -------------------------------------- *)

\* C28: after any successful updateTransaction, no active transfer entry has
\* from_account_id equal to to_account_id.
C28_UpdateKeepsTransferAccountsDistinct ==
    [][Succeeded("updateTransaction") =>
        \A i \in DOMAIN transactions' :
            (~transactions'[i].deleted /\ transactions'[i].type = "transfer") =>
                transactions'[i].from_account_id # transactions'[i].to_account_id]_vars
====
